---- MODULE Spec2Model ----
(***************************************************************************)
(* Currency to Yen: a model of the currency detector (detectCurrencies and *)
(* its pattern table) and of the service worker (rate cache, conversion,   *)
(* message listener).                                                      *)
(*                                                                         *)
(* A text is a sequence of one-character strings; positions are the        *)
(* 0-based offsets of the source (At(t, i) is t.charAt(i)).                *)
(* The currency symbols outside ASCII are written by name: "euro" is the   *)
(* euro sign, "pound", "won", "rupee", "peso", "baht" likewise.            *)
(***************************************************************************)
EXTENDS Integers, Sequences, FiniteSets, TLC

VARIABLES
    text,        \* detectCurrencies: the argument of the call
    results,     \* detectCurrencies: the returned list
    accepted,    \* history: which rule pushed each range of foundRanges
    candidates,  \* history: every match the rules' exec calls returned
    lastIndex,   \* CURRENCY_PATTERNS[r].pattern.lastIndex, one per rule
    dpc,         \* "ready" before the call, "done" after it
    log,         \* history: the calls of detectCurrencies, text and result
    overlap,     \* one overlap test: a candidate span, foundRanges and the outcome
    point,       \* one call detectCurrencyAtPoint: what is at the point, and the outcome
    strategy,    \* one call of one detection strategy: its arguments and the outcome
    memoryCache, \* service worker: the in-process slot (Null or a table)
    localStore,  \* chrome.storage.local's cachedRates (Null or a table)
    syncStore,   \* chrome.storage.sync's settings (the stored fields)
    now,         \* Date.now()
    calls,       \* the message handlers: position, locals and history
    receivedAt,  \* history: Date.now() when the latest message was received
    isEnabled,             \* content script: the extension is switched on
    lastDetectedCurrency,  \* content script: Null or the price last detected
    mouseMoveTimer,        \* the pending debounce timer: Null or its event, its time left
                           \* and (history) whether a later mousemove was received
    showTimer,             \* the pending show timer: Null or its price and time left
    hideTimers,            \* the pending hide timers, oldest first: the time left of each
    hideTimer,             \* TRUE when hideTimer holds the handle of the newest of them
    requests,              \* the conversions whose response is awaited, oldest first
    tooltip,               \* the tooltip element: its display and its price
    switchedOff,           \* history: the latest settings change applied had enabled = false
    called                 \* history: which of showTooltip and hideTooltip was called last,
                           \* whether cancelHideTooltip was called since the last hideTooltip,
                           \* and the price of the latest showTooltip call

detVars == <<text, results, accepted, candidates, lastIndex, dpc, log, overlap, point,
            strategy>>
swVars == <<memoryCache, localStore, syncStore, now, calls, receivedAt>>
csVars == <<isEnabled, lastDetectedCurrency, mouseMoveTimer, showTimer, hideTimers,
            hideTimer, requests, tooltip, switchedOff, called>>
vars == <<text, results, accepted, candidates, lastIndex, dpc, log, overlap, point,
          strategy,
          memoryCache, localStore, syncStore, now, calls, receivedAt,
          isEnabled, lastDetectedCurrency, mouseMoveTimer, showTimer, hideTimers,
          hideTimer, requests, tooltip, switchedOff, called>>

(***************************************************************************)
(* Characters                                                              *)
(***************************************************************************)
Digits == {"0", "1", "2", "3", "4", "5", "6", "7", "8", "9"}

AlphaU == <<"A","B","C","D","E","F","G","H","I","J","K","L","M",
            "N","O","P","Q","R","S","T","U","V","W","X","Y","Z">>
AlphaL == <<"a","b","c","d","e","f","g","h","i","j","k","l","m",
            "n","o","p","q","r","s","t","u","v","w","x","y","z">>

UpperLetters == {AlphaU[i] : i \in DOMAIN AlphaU}
LowerLetters == {AlphaL[i] : i \in DOMAIN AlphaL}

\* String.prototype.toUpperCase on one character
ToUpperCase(c) ==
    IF c \in LowerLetters
    THEN AlphaU[CHOOSE i \in DOMAIN AlphaL : AlphaL[i] = c]
    ELSE c

\* \w of the regular expressions
WordChars == Digits \cup UpperLetters \cup LowerLetters \cup {"_"}
IsWordChar(c) == c \in WordChars
\* \d
IsDigit(c) == c \in Digits
\* [\d,]
NumChars == Digits \cup {","}
\* \s
Spaces == {" "}
IsSpace(c) == c \in Spaces

At(t, i) == t[i + 1]

\* t.substring(from, to)
Substring(t, from, to) == [k \in 1..(to - from) |-> t[from + k]]

\* \b at offset i of t
WordBoundary(t, i) ==
    LET before == i > 0 /\ IsWordChar(At(t, i - 1))
        after == i < Len(t) /\ IsWordChar(At(t, i))
    IN before # after

(***************************************************************************)
(* parseAmount.  A number is kept exactly as units and hundredths; the     *)
(* patterns' (?:\.\d{1,2})? passes at most two fraction digits.  A value   *)
(* above MAX_AMOUNT is kept as Beyond (only its order against MAX_AMOUNT   *)
(* is ever read).                                                          *)
(***************************************************************************)
MAX_AMOUNT == 1000000000

Beyond == MAX_AMOUNT + 1

DigitChars == <<"0", "1", "2", "3", "4", "5", "6", "7", "8", "9">>
DigitVal(c) == (CHOOSE i \in DOMAIN DigitChars : DigitChars[i] = c) - 1

\* amountStr.trim()
RECURSIVE TrimLeft(_)
TrimLeft(s) == IF s # <<>> /\ IsSpace(Head(s)) THEN TrimLeft(Tail(s)) ELSE s
RECURSIVE TrimRight(_)
TrimRight(s) ==
    IF s # <<>> /\ IsSpace(s[Len(s)]) THEN TrimRight(SubSeq(s, 1, Len(s) - 1)) ELSE s
Trim(s) == TrimRight(TrimLeft(s))

\* cleaned.replace(/,/g, '')
RemoveCommas(s) == SelectSeq(s, LAMBDA c : c # ",")

\* the leading run of decimal digits of s
RECURSIVE DigitRun(_)
DigitRun(s) ==
    IF s # <<>> /\ IsDigit(Head(s)) THEN <<Head(s)>> \o DigitRun(Tail(s)) ELSE <<>>

\* the value of a digit string, Beyond once it exceeds MAX_AMOUNT
RECURSIVE DecValue(_, _)
DecValue(s, acc) ==
    IF s = <<>> THEN acc
    ELSE IF acc > MAX_AMOUNT \div 10 THEN DecValue(Tail(s), Beyond)
    ELSE LET v == acc * 10 + DigitVal(Head(s))
         IN DecValue(Tail(s), IF v > MAX_AMOUNT THEN Beyond ELSE v)

NaN == [nan |-> TRUE, units |-> 0, cents |-> 0]
Zero == [nan |-> FALSE, units |-> 0, cents |-> 0]

\* parseFloat on a string of digits and periods: the longest decimal prefix
ParseFloat(s) ==
    LET ip == DigitRun(s)
        rest == SubSeq(s, Len(ip) + 1, Len(s))
        fp == IF rest # <<>> /\ Head(rest) = "." THEN DigitRun(Tail(rest)) ELSE <<>>
        c1 == IF Len(fp) >= 1 THEN DigitVal(fp[1]) ELSE 0
        c2 == IF Len(fp) >= 2 THEN DigitVal(fp[2]) ELSE 0
    IN IF ip = <<>> /\ fp = <<>> THEN NaN
       ELSE [nan |-> FALSE, units |-> DecValue(ip, 0), cents |-> c1 * 10 + c2]

\* amount <= 0
IsNonPositive(a) == a.units = 0 /\ a.cents = 0
\* amount > MAX_AMOUNT
ExceedsMax(a) == a.units > MAX_AMOUNT \/ (a.units = MAX_AMOUNT /\ a.cents > 0)

parseAmount_NoMaxCheck(amountStr) ==
    LET amount == ParseFloat(RemoveCommas(Trim(amountStr)))
    IN IF amount.nan \/ IsNonPositive(amount) THEN Zero ELSE amount

parseAmount(amountStr) ==
    LET amount == ParseFloat(RemoveCommas(Trim(amountStr)))
    IN IF amount.nan \/ IsNonPositive(amount) \/ ExceedsMax(amount)
       THEN Zero
       ELSE amount

(***************************************************************************)
(* The number pattern  ([\d,]{1,15}(?:\.\d{1,2})?)  and the six rules of   *)
(* CURRENCY_PATTERNS.                                                      *)
(***************************************************************************)
MaxNumChars == 15

\* how many characters from offset p on are in the class cls, at most cap
RECURSIVE RunLen(_, _, _, _)
RunLen(t, p, cls, cap) ==
    IF cap > 0 /\ p < Len(t) /\ At(t, p) \in cls
    THEN 1 + RunLen(t, p + 1, cls, cap - 1)
    ELSE 0

\* \s* from p: the offset after the whitespace.  (Giving back whitespace
\* never helps: what follows \s* in every rule matches no whitespace.)
SkipSpaces(t, p) == p + RunLen(t, p, Spaces, Len(t))

\* The ends the number pattern can take from offset p with n characters of
\* [\d,], in the order the backtracking matcher tries them: the fraction
\* with two digits, with one digit, then no fraction.
FracEnds(t, e) ==
    LET dot == e < Len(t) /\ At(t, e) = "."
        d1 == dot /\ e + 1 < Len(t) /\ IsDigit(At(t, e + 1))
        d2 == d1 /\ e + 2 < Len(t) /\ IsDigit(At(t, e + 2))
    IN (IF d2 THEN <<e + 3>> ELSE <<>>) \o (IF d1 THEN <<e + 2>> ELSE <<>>) \o <<e>>

\* all ends from p, greedy first: n = the longest run of [\d,] down to 1
RECURSIVE NumEndsFrom(_, _, _)
NumEndsFrom(t, p, n) ==
    IF n < 1 THEN <<>> ELSE FracEnds(t, p + n) \o NumEndsFrom(t, p, n - 1)

NumEnds(t, p) == NumEndsFrom(t, p, RunLen(t, p, NumChars, MaxNumChars))

\* the first end in ends (in order) that stands at a \b, or -1
RECURSIVE FirstBoundary(_, _)
FirstBoundary(t, ends) ==
    IF ends = <<>> THEN -1
    ELSE IF WordBoundary(t, Head(ends)) THEN Head(ends)
    ELSE FirstBoundary(t, Tail(ends))

\* whether the literal lit stands at offset s of t; ci is the i flag
MatchesLit(t, s, lit, ci) ==
    /\ s + Len(lit) <= Len(t)
    /\ \A k \in DOMAIN lit :
          (IF ci THEN ToUpperCase(At(t, s + k - 1)) ELSE At(t, s + k - 1)) = lit[k]

\* (?:US|HK|AU|CA|SG|NT|A|C|S), in the order of the alternation
DollarPrefixes ==
    << <<"U","S">>, <<"H","K">>, <<"A","U">>, <<"C","A">>, <<"S","G">>,
       <<"N","T">>, <<"A">>, <<"C">>, <<"S">> >>

\* [$ euro pound won rupee peso baht] of the second rule
Symbols == << <<"$">>, <<"euro">>, <<"pound">>, <<"won">>, <<"rupee">>,
              <<"peso">>, <<"baht">> >>

\* (USD|EUR|GBP|CNY|KRW|AUD|CAD|CHF|HKD|SGD|TWD|THB|INR|PHP|MYR)
CodeNames == <<"USD", "EUR", "GBP", "CNY", "KRW", "AUD", "CAD", "CHF",
               "HKD", "SGD", "TWD", "THB", "INR", "PHP", "MYR">>
CodeLits ==
    << <<"U","S","D">>, <<"E","U","R">>, <<"G","B","P">>, <<"C","N","Y">>,
       <<"K","R","W">>, <<"A","U","D">>, <<"C","A","D">>, <<"C","H","F">>,
       <<"H","K","D">>, <<"S","G","D">>, <<"T","W","D">>, <<"T","H","B">>,
       <<"I","N","R">>, <<"P","H","P">>, <<"M","Y","R">> >>

\* the rules, in the order of CURRENCY_PATTERNS
Rules == 1..6

\* (?:US|HK|AU|CA|SG|NT|A|C|S)\$
DollarLits == [i \in DOMAIN DollarPrefixes |-> DollarPrefixes[i] \o <<"$">>]

\* the marker alternatives of a rule, in order, each with its literal text
MarkerLits(r) ==
    CASE r = 1 -> DollarLits
      [] r = 2 -> Symbols
      [] r = 3 -> CodeLits
      [] r = 4 -> CodeLits
      [] r = 5 -> << <<"R","M">> >>
      [] r = 6 -> << <<"C","H","F">> >>

\* the i flag of the rule's pattern
IgnoreCase(r) == r # 2

\* the rule's pattern opens with \b
LeadingBoundary(r) == r \in {3, 4}

\* A match of exec: index, end (index + match[0].length), marker (which
\* alternative matched) and num (the captured number text).
NoExec == [index |-> -1, end |-> -1, marker |-> 0, num |-> <<>>]

\* marker \s* number \b  at offset s, trying the alternatives from i on
RECURSIVE MarkerFirstAt(_, _, _, _)
MarkerFirstAt(t, r, s, i) ==
    LET lits == MarkerLits(r)
    IN IF i > Len(lits) THEN NoExec
       ELSE IF ~MatchesLit(t, s, lits[i], IgnoreCase(r))
            THEN MarkerFirstAt(t, r, s, i + 1)
       ELSE LET q == SkipSpaces(t, s + Len(lits[i]))
                e == FirstBoundary(t, NumEnds(t, q))
            IN IF e < 0 THEN MarkerFirstAt(t, r, s, i + 1)
               ELSE [index |-> s, end |-> e, marker |-> i,
                     num |-> Substring(t, q, e)]

\* the code alternative standing at q and followed by \b, or 0
CodeAt(t, q) ==
    LET hits == {i \in DOMAIN CodeLits :
                    /\ MatchesLit(t, q, CodeLits[i], TRUE)
                    /\ WordBoundary(t, q + Len(CodeLits[i]))}
    IN IF hits = {} THEN 0 ELSE CHOOSE i \in hits : \A j \in hits : i <= j

\* number \s* code \b  at offset s, trying the number's ends in order
RECURSIVE NumberFirstAt(_, _, _)
NumberFirstAt(t, s, ends) ==
    IF ends = <<>> THEN NoExec
    ELSE LET e == Head(ends)
             q == SkipSpaces(t, e)
             c == CodeAt(t, q)
         IN IF c = 0 THEN NumberFirstAt(t, s, Tail(ends))
            ELSE [index |-> s, end |-> q + Len(CodeLits[c]), marker |-> c,
                  num |-> Substring(t, s, e)]

\* the rule's pattern anchored at offset s
MatchAt(t, r, s) ==
    IF LeadingBoundary(r) /\ ~WordBoundary(t, s) THEN NoExec
    ELSE IF r = 3 THEN NumberFirstAt(t, s, NumEnds(t, s))
    ELSE MarkerFirstAt(t, r, s, 1)

\* the leftmost match that starts at an offset of lo..(hi - 1), lo < hi; the
\* offsets are tried from the left, the range being halved at each level
RECURSIVE ExecWithin(_, _, _, _)
ExecWithin(t, r, lo, hi) ==
    IF hi - lo = 1 THEN MatchAt(t, r, lo)
    ELSE LET mid == (lo + hi) \div 2
             m == ExecWithin(t, r, lo, mid)
         IN IF m # NoExec THEN m ELSE ExecWithin(t, r, mid, hi)

\* pattern.exec(text) with the g flag: the leftmost match at or after
\* lastIndex, null when there is none
Exec(t, r, from) ==
    IF from >= Len(t) THEN NoExec ELSE ExecWithin(t, r, from, Len(t))

\* getCode of each rule; "" is null
getCode(r, m) ==
    CASE r = 1 ->
           LET prefix == DollarPrefixes[m.marker]
           IN CASE prefix = <<"U","S">> -> "USD"
                [] prefix = <<"H","K">> -> "HKD"
                [] prefix \in {<<"A","U">>, <<"A">>} -> "AUD"
                [] prefix \in {<<"C","A">>, <<"C">>} -> "CAD"
                [] prefix \in {<<"S","G">>, <<"S">>} -> "SGD"
                [] prefix = <<"N","T">> -> "TWD"
                [] OTHER -> ""
      [] r = 2 ->
           LET sym == Symbols[m.marker][1]
           IN CASE sym = "$" -> "USD"
                [] sym = "euro" -> "EUR"
                [] sym = "pound" -> "GBP"
                [] sym = "won" -> "KRW"
                [] sym = "baht" -> "THB"
                [] sym = "rupee" -> "INR"
                [] sym = "peso" -> "PHP"
                [] OTHER -> ""
      [] r \in {3, 4} -> CodeNames[m.marker]
      [] r = 5 -> "MYR"
      [] r = 6 -> "CHF"

\* getAmount of each rule
getAmount(r, m) == parseAmount(m.num)

(***************************************************************************)
(* detectCurrencies                                                        *)
(***************************************************************************)
\* the overlap test against the ranges found so far
IsOverlapping_NoStartClause(startIndex, endIndex, foundRanges) ==
    \E i \in DOMAIN foundRanges :
        LET range == foundRanges[i]
        IN \/ (endIndex > range.start /\ endIndex <= range.end)
           \/ (startIndex <= range.start /\ endIndex >= range.end)

\* a test that only rejects a candidate starting where a range starts
IsOverlapping_SameStartOnly(startIndex, endIndex, foundRanges) ==
    \E i \in DOMAIN foundRanges : startIndex = foundRanges[i].start

\* the test without its third clause
IsOverlapping_NoContainClause(startIndex, endIndex, foundRanges) ==
    \E i \in DOMAIN foundRanges :
        LET range == foundRanges[i]
        IN \/ (startIndex >= range.start /\ startIndex < range.end)
           \/ (endIndex > range.start /\ endIndex <= range.end)

IsOverlapping(startIndex, endIndex, foundRanges) ==
    \E i \in DOMAIN foundRanges :
        LET range == foundRanges[i]
        IN \/ (startIndex >= range.start /\ startIndex < range.end)
           \/ (endIndex > range.start /\ endIndex <= range.end)
           \/ (startIndex <= range.start /\ endIndex >= range.end)

\* no overlap test has been set up
NoTest ==
    [startIndex |-> 0, endIndex |-> 0, foundRanges |-> <<>>,
     tested |-> FALSE, isOverlapping |-> FALSE]

\* the while loop of one rule: exec until null, from pattern.lastIndex.
\* acc.results and acc.foundRanges are the two lists of the source; acc.rules
\* (the rule that pushed each range) and acc.execs (every match exec
\* returned, with foundRanges as it was then) are history.
RECURSIVE ScanRule(_, _, _, _)
\* the body of the loop, for the match exec has returned
LoopBody(t, r, acc, match) ==
    LET code == getCode(r, match)
        amount == getAmount(r, match)
        startIndex == match.index
        endIndex == match.end
        seen == [acc EXCEPT !.execs = Append(@,
                   [rule |-> r, start |-> startIndex, end |-> endIndex,
                    code |-> code, num |-> match.num, found |-> acc.foundRanges])]
    IN IF code = "" \/ IsNonPositive(amount) THEN ScanRule(t, r, match.end, seen)
       ELSE IF code = "JPY" THEN ScanRule(t, r, match.end, seen)
       ELSE IF IsOverlapping(startIndex, endIndex, acc.foundRanges)
            THEN ScanRule(t, r, match.end, seen)
       ELSE ScanRule(t, r, match.end,
              [results |-> Append(acc.results,
                   [code |-> code, amount |-> amount,
                    originalText |-> Substring(t, startIndex, endIndex),
                    startIndex |-> startIndex, endIndex |-> endIndex]),
               foundRanges |-> Append(acc.foundRanges,
                   [start |-> startIndex, end |-> endIndex]),
               rules |-> Append(acc.rules, r),
               execs |-> seen.execs])

ScanRule(t, r, from, acc) ==
    LET match == Exec(t, r, from)
    IN IF match = NoExec THEN acc ELSE LoopBody(t, r, acc, match)

\* the for loop over CURRENCY_PATTERNS; li[r] is the lastIndex rule r's
\* loop starts from
RECURSIVE ScanRules(_, _, _, _)
ScanRules(t, r, li, acc) ==
    IF r \notin Rules THEN acc
    ELSE ScanRules(t, r + 1, li, ScanRule(t, r, li[r], acc))

\* pattern.lastIndex = 0, of every rule; it is also what the exec that
\* returns null and ends a rule's loop leaves
ResetIndex == [r \in Rules |-> 0]

\* results.sort((a, b) => a.startIndex - b.startIndex): a stable sort
RECURSIVE InsertSorted(_, _)
InsertSorted(sorted, x) ==
    IF sorted = <<>> THEN <<x>>
    ELSE IF sorted[Len(sorted)].startIndex <= x.startIndex THEN Append(sorted, x)
    ELSE Append(InsertSorted(SubSeq(sorted, 1, Len(sorted) - 1), x), sorted[Len(sorted)])

RECURSIVE SortByStart(_)
SortByStart(rs) ==
    IF rs = <<>> THEN <<>>
    ELSE InsertSorted(SortByStart(SubSeq(rs, 1, Len(rs) - 1)), rs[Len(rs)])

\* the two loops, from empty results and foundRanges
ScanAll(t, li) ==
    ScanRules(t, 1, li,
              [results |-> <<>>, foundRanges |-> <<>>, rules |-> <<>>, execs |-> <<>>])

\* the ranges of foundRanges, each with the rule that pushed it
RangesOf(acc) ==
    {[rule |-> acc.rules[i], start |-> acc.foundRanges[i].start,
      end |-> acc.foundRanges[i].end] : i \in DOMAIN acc.rules}

\* every match exec returned, as a set
ExecsOf(acc) == {acc.execs[i] : i \in DOMAIN acc.execs}

\* detectCurrencies(text): results is the list it returns; accepted and
\* candidates are the history of the call
detectCurrencies_NoSort(t) ==
    LET acc == ScanAll(t, ResetIndex)
    IN [results |-> acc.results, accepted |-> RangesOf(acc), candidates |-> ExecsOf(acc)]

detectCurrencies(t) ==
    LET acc == ScanAll(t, ResetIndex)
    IN [results |-> SortByStart(acc.results), accepted |-> RangesOf(acc),
        candidates |-> ExecsOf(acc)]

(***************************************************************************)
(* The texts detectCurrencies is called on: tokens of a vocabulary,        *)
(* concatenated.  Three vocabularies: prices (symbol, digit, separator,    *)
(* code), amounts (digits, grouping, fraction, a ten-digit number) and     *)
(* markers (national-dollar prefixes, RM, CHF).                            *)
(***************************************************************************)
MaxTokens == 6
MaxAmountTokens == 4
MaxMarkerTokens == 3

PriceTokens == << <<"$">>, <<"1">>, <<" ">>, <<"U","S","D">> >>

Billion == <<"1","0","0","0","0","0","0","0","0","0">>

AmountTokens == << <<"$">>, <<"1">>, <<"0">>, <<",">>, <<".">>, Billion >>

MarkerTokens == << <<"U","S">>, <<"S">>, <<"$">>, <<"1">>, <<"C","H","F">>, <<"r","m">> >>

RECURSIVE Concat(_)
Concat(ss) == IF ss = <<>> THEN <<>> ELSE Head(ss) \o Concat(Tail(ss))

TextsOf(tokens, n) ==
    UNION {{Concat([i \in 1..k |-> tokens[f[i]]]) : f \in [1..k -> DOMAIN tokens]} : k \in 0..n}

\* the texts of up to p price tokens, a amount tokens or m marker tokens
Texts(p, a, m) ==
    TextsOf(PriceTokens, p) \cup TextsOf(AmountTokens, a) \cup TextsOf(MarkerTokens, m)

\* texts of national-dollar prefixes and short numbers, and the text of
\* the second scenario
MaxDollarTokens == 4

DollarTokens == << <<"U","S">>, <<"S">>, <<"a">>, <<"$">>, <<"1">>, <<"0">> >>

Scenario2 ==
    <<"U","S","$","1","0","0"," ","a","n","d"," ","H","K","$","1","0","0">>

DollarTexts(n) == TextsOf(DollarTokens, n) \cup {Scenario2}

(***************************************************************************)
(* The service worker: rate tables, getExchangeRates' pieces, convertToYen *)
(* and the settings.  A rate is an exact fraction n/d; the remote source   *)
(* returns positive rates.                                                 *)
(***************************************************************************)
CACHE_DURATION == 60 * 60 * 1000

Null == [isNull |-> TRUE]

One == [n |-> 1, d |-> 1]
\* 1 / rate
Inverse(x) == [n |-> x.d, d |-> x.n]
\* amount * rate
Times(a, x) == [n |-> a.n * x.n, d |-> a.d * x.d]
RatEq(x, y) == x.n * y.d = y.n * x.d

\* Date.now() - table.fetchedAt < CACHE_DURATION
IsFresh(tbl, t) == t - tbl.fetchedAt < CACHE_DURATION

\* the type CurrencyCode
SupportedCodes ==
    {"USD", "EUR", "GBP", "CNY", "KRW", "AUD", "CAD", "CHF", "HKD", "SGD",
     "TWD", "THB", "INR", "PHP", "MYR", "JPY"}

\* the loop over Object.entries(data.rates) and the JPY entry after it
BuildRates_NoSelfEntry(data) ==
    [c \in DOMAIN data.rates |-> Inverse(data.rates[c])]

BuildRates(data) ==
    [c \in DOMAIN data.rates \cup {"JPY"} |->
        IF c = "JPY" THEN One ELSE Inverse(data.rates[c])]

\* cachedRates = { rates, date: data.date, fetchedAt: Date.now() }
MakeTable_KeepStamp(data, t) ==
    [rates |-> BuildRates(data), date |-> data.date,
     fetchedAt |-> IF memoryCache = Null THEN t ELSE memoryCache.fetchedAt]

MakeTable(data, t) ==
    [rates |-> BuildRates(data), date |-> data.date, fetchedAt |-> t]

\* !rate: rates[fromCurrency] is undefined or 0
NoRate(rates, code) == code \notin DOMAIN rates \/ rates[code].n = 0

\* convertToYen once getExchangeRates has returned tbl; the thrown error
\* is ok = FALSE
convertToYen_Rounded(amount, fromCurrency, tbl) ==
    IF NoRate(tbl.rates, fromCurrency)
    THEN [ok |-> FALSE, error |-> "unsupported currency"]
    ELSE LET rate == tbl.rates[fromCurrency]
             yen == Times(amount, rate)
         IN [ok |-> TRUE,
             value |-> [yen |-> [n |-> yen.n \div yen.d, d |-> 1],
                        rate |-> rate, date |-> tbl.date]]

convertToYen(amount, fromCurrency, tbl) ==
    IF NoRate(tbl.rates, fromCurrency)
    THEN [ok |-> FALSE, error |-> "unsupported currency"]
    ELSE LET rate == tbl.rates[fromCurrency]
         IN [ok |-> TRUE,
             value |-> [yen |-> Times(amount, rate), rate |-> rate, date |-> tbl.date]]

DEFAULT_SETTINGS == [enabled |-> TRUE, showOriginalAmount |-> TRUE, tooltipDelay |-> 200]

\* { ...a, ...b }
Spread_Reversed(a, b) ==
    [k \in DOMAIN a \cup DOMAIN b |-> IF k \in DOMAIN a THEN a[k] ELSE b[k]]

Spread(a, b) ==
    [k \in DOMAIN a \cup DOMAIN b |-> IF k \in DOMAIN b THEN b[k] ELSE a[k]]

\* no stored field, and the spread of undefined
NoFields == [k \in {} |-> TRUE]

(***************************************************************************)
(* What the service worker's surroundings can deliver                      *)
(***************************************************************************)
MaxCalls == 2
MaxTicks == 2

CallIds == 1..MaxCalls

\* parsed bodies of GET /latest?base=JPY: 1 JPY = rate units of the currency
Payloads ==
    { [rates |-> [c \in {"USD", "KRW"} |->
                    IF c = "USD" THEN [n |-> 1, d |-> 150] ELSE [n |-> 9, d |-> 1]],
       date |-> "2024-01-01"],
      [rates |-> [c \in {"USD", "BRL"} |->
                    IF c = "USD" THEN [n |-> 1, d |-> 160] ELSE [n |-> 1, d |-> 30]],
       date |-> "2024-01-02"] }

AllRatesMessage ==
    [type |-> "GET_ALL_RATES", amount |-> One, currency |-> "", settings |-> NoFields]

\* a conversion of 10 units of a currency
ConvertMessage(c) ==
    [type |-> "CONVERT_TO_YEN", amount |-> [n |-> 10, d |-> 1], currency |-> c,
     settings |-> NoFields]

\* the messages that call getExchangeRates: conversions of a currency every
\* fetched body lists and of one that only some list, and GET_ALL_RATES
RateMessages == {ConvertMessage("USD"), ConvertMessage("KRW"), AllRatesMessage}

\* the messages the listener receives: one of each type it knows, and one of
\* a type it does not know
Messages ==
    {ConvertMessage("KRW")}
    \cup {[type |-> t, amount |-> One, currency |-> "", settings |-> NoFields] :
             t \in {"GET_ALL_RATES", "GET_SETTINGS", "GET_EXCHANGE_RATE"}}
    \cup {[type |-> "SET_SETTINGS", amount |-> One, currency |-> "", settings |-> f] :
             f \in {[enabled |-> FALSE]}}

\* a record a former run of the worker left in chrome.storage.local
OldTable ==
    [rates |-> [c \in {"USD", "JPY"} |-> IF c = "USD" THEN [n |-> 140, d |-> 1] ELSE One],
     date |-> "2023-12-31", fetchedAt |-> 0]

(***************************************************************************)
(* A handler of the message listener.  pc is where it stands ("idle": not  *)
(* yet received; "get", "fetch", "json", "set", "sget", "sset": awaiting   *)
(* that promise; "done": handleMessage has resolved).  msg, data, table    *)
(* and settings are its locals, response what sendResponse was given, and  *)
(* stored what its chrome.storage.local.get is answered with while that    *)
(* answer is awaited or in use: the storage area serves the requests of a  *)
(* worker in the order they are made, so a get is answered with the record *)
(* at the time of the call.                                                *)
(* The other fields are history.                                           *)
(***************************************************************************)
NoMessage == [type |-> "", amount |-> One, currency |-> "", settings |-> NoFields]

IdleCall ==
    [pc |-> "idle", msg |-> NoMessage, data |-> Null, table |-> Null,
     stored |-> Null, settings |-> NoFields, response |-> Null, sent |-> 0,
     fetches |-> 0,           \* fetch() calls issued
     via |-> "",              \* "memory", "storage", "fetch": how the rates came
     rates |-> "",            \* getExchangeRates "returned" or "rejected"
     readFailed |-> FALSE,    \* the handler's storage read was rejected
     writeFailed |-> FALSE,   \* the handler's storage write was rejected
     alone |-> FALSE,         \* at receipt no other handler was under way
     soonAfter |-> FALSE,     \* the message before came less than 1 h earlier
     slotWas |-> "",          \* the slot at receipt: "empty", "expired", "fresh"
     builtAt |-> 0]           \* Date.now() when the handler's json() resolved

\* settings an earlier run left in chrome.storage.sync
StoredSettings ==
    {NoFields, [tooltipDelay |-> 500],
     [enabled |-> FALSE, showOriginalAmount |-> TRUE, tooltipDelay |-> 200]}

\* the GET_SETTINGS and SET_SETTINGS messages
SettingsMessages ==
    {[type |-> "GET_SETTINGS", amount |-> One, currency |-> "", settings |-> NoFields]}
    \cup {[type |-> "SET_SETTINGS", amount |-> One, currency |-> "", settings |-> f] :
             f \in {[enabled |-> FALSE], [enabled |-> TRUE],
                    [showOriginalAmount |-> FALSE, tooltipDelay |-> 100]}}

\* the state right after the service worker has started: an empty slot, and
\* in chrome.storage whatever an earlier run left
WorkerStarted(stored, synced) ==
    /\ memoryCache = Null
    /\ localStore = stored
    /\ syncStore = synced
    /\ now = 0
    /\ calls = [c \in CallIds |-> IdleCall]
    /\ receivedAt = 0

(***************************************************************************)
(* The content script: mouse events, the settings listener and the tooltip *)
(* with its timers.  Time is counted in units of DEBOUNCE_DELAY; a timer   *)
(* carries the time left until it fires.  A timer handle that is kept      *)
(* after its timer has fired is modelled as no handle: clearTimeout of it  *)
(* does nothing.                                                           *)
(***************************************************************************)
DEBOUNCE_DELAY == 50
SHOW_DELAY == 200
HIDE_DELAY == 100

\* the bounds on pending hide timers and on conversions awaiting a response
MaxHides == 2
MaxRequests == 2

\* the prices on the page, each by its originalText
Prices == {"$10", "S$20"}

\* what a mouse event's target is: a price, text without a price, or the
\* tooltip itself
Targets == Prices \cup {"plain", "tooltip"}

\* detectCurrencyAtPoint(target, x, y) on this page
DetectedAt(target) ==
    IF target \in Prices
    THEN [originalText |-> target, startIndex |-> 0]
    ELSE Null

\* the state once initialize() has run: loadSettings has set isEnabled, the
\* listeners are set up, no timer is pending and no tooltip exists
ContentLoaded(enabled) ==
    /\ isEnabled = enabled
    /\ lastDetectedCurrency = Null
    /\ mouseMoveTimer = Null
    /\ showTimer = Null
    /\ hideTimers = <<>>
    /\ hideTimer = FALSE
    /\ requests = <<>>
    /\ tooltip = [display |-> "none", original |-> ""]
    /\ switchedOff = FALSE
    /\ called = [last |-> "none", cancelled |-> FALSE, shown |-> ""]

\* the timers of the tooltip module, as one value
TooltipTimers == [show |-> showTimer, hides |-> hideTimers, hide |-> hideTimer]

\* the timers of the tooltip module become tm
SetTimers(tm) ==
    /\ showTimer' = tm.show
    /\ hideTimers' = tm.hides
    /\ hideTimer' = tm.hide

\* clearTimeout(hideTimer); hideTimer = null, when hideTimer is set
ClearHide(tm) ==
    IF tm.hide
    THEN [tm EXCEPT !.hides = SubSeq(@, 1, Len(@) - 1), !.hide = FALSE]
    ELSE tm

\* showTooltip(currency, x, y) up to its setTimeout
showTooltip(tm, currency) ==
    [ClearHide(tm) EXCEPT !.show = [currency |-> currency, left |-> SHOW_DELAY]]

\* hideTooltip()
hideTooltip(tm) ==
    [show |-> Null, hides |-> Append(tm.hides, HIDE_DELAY), hide |-> TRUE]

\* cancelHideTooltip()
cancelHideTooltip(tm) == ClearHide(tm)

\* the history once hideTooltip() has been called
HideCalled == [called EXCEPT !.last = "hideTooltip", !.cancelled = FALSE]

(***************************************************************************)
(* detectCurrencyAtPoint.  What each of the three strategies finds at the  *)
(* point is given by the page: Null or a detected currency.                *)
(***************************************************************************)
\* the detected currencies a strategy may find at a point
Found ==
    {[code |-> "USD", originalText |-> "$10", startIndex |-> 0],
     [code |-> "SGD", originalText |-> "S$20", startIndex |-> 4],
     [code |-> "EUR", originalText |-> "5 EUR", startIndex |-> 0],
     [code |-> "USD", originalText |-> "$10", startIndex |-> 7]}

\* the points of a page: what each strategy finds there
Points ==
    [rangeResult : Found \cup {Null}, elementResult : Found \cup {Null},
     parentResult : Found \cup {Null}, called : {FALSE}, tried : {<<>>},
     result : {Null}]

\* no strategy call has been set up
NoStrategy == [kind |-> "none"]

\* no point has been set up
NoPoint ==
    [rangeResult |-> Null, elementResult |-> Null, parentResult |-> Null,
     called |-> FALSE, tried |-> <<>>, result |-> Null]

detectFromCaretRange(p) == p.rangeResult
detectFromTargetElement(p) == p.elementResult
detectFromParentElements(p) == p.parentResult

\* a detectCurrencyAtPoint that asks the hovered element first
detectCurrencyAtPoint_ElementFirst(p) ==
    LET elementResult == detectFromTargetElement(p)
        rangeResult == detectFromCaretRange(p)
        parentResult == detectFromParentElements(p)
    IN IF elementResult # Null
       THEN [result |-> elementResult, tried |-> <<"element">>]
       ELSE IF rangeResult # Null
       THEN [result |-> rangeResult, tried |-> <<"element", "caret">>]
       ELSE IF parentResult # Null
       THEN [result |-> parentResult, tried |-> <<"element", "caret", "parents">>]
       ELSE [result |-> Null, tried |-> <<"element", "caret", "parents">>]

\* detectCurrencyAtPoint(element, x, y): what it returns, and the
\* strategies it has called, in the order of the calls
detectCurrencyAtPoint(p) ==
    LET rangeResult == detectFromCaretRange(p)
        elementResult == detectFromTargetElement(p)
        parentResult == detectFromParentElements(p)
    IN IF rangeResult # Null
       THEN [result |-> rangeResult, tried |-> <<"caret">>]
       ELSE IF elementResult # Null
       THEN [result |-> elementResult, tried |-> <<"caret", "element">>]
       ELSE IF parentResult # Null
       THEN [result |-> parentResult, tried |-> <<"caret", "element", "parents">>]
       ELSE [result |-> Null, tried |-> <<"caret", "element", "parents">>]

(***************************************************************************)
(* The detector as a state machine                                         *)
(***************************************************************************)
InitDetect(texts) ==
    /\ text \in texts
    /\ results = <<>>
    /\ accepted = {}
    /\ candidates = {}
    /\ lastIndex = ResetIndex
    /\ dpc = "ready"
    /\ log = <<>>
    /\ overlap = NoTest
    /\ point = NoPoint
    /\ strategy = NoStrategy
    /\ ContentLoaded(TRUE)
    /\ WorkerStarted(Null, NoFields)

\* the call returns out: its list and the history of the call
Returns(out) ==
    /\ results' = out.results
    /\ accepted' = out.accepted
    /\ candidates' = out.candidates

\* one call detectCurrencies(text)
Detect ==
    /\ dpc = "ready"
    /\ Returns(detectCurrencies(text))
    /\ lastIndex' = ResetIndex
    /\ dpc' = "done"
    /\ UNCHANGED <<text, log, overlap, point, strategy>>
    /\ UNCHANGED <<swVars, csVars>>

SpecDetect == InitDetect(Texts(MaxTokens, MaxAmountTokens, MaxMarkerTokens)) /\ [][Detect]_vars

SpecDollar == InitDetect(DollarTexts(MaxDollarTokens)) /\ [][Detect]_vars

\* the overlap test on its own: spans within 0..MaxPos and lists of up to
\* MaxRanges ranges, pairwise apart as the ranges detectCurrencies has pushed are
MaxPos == 4
MaxRanges == 2

Spans == {sp \in [start : 0..MaxPos, end : 0..MaxPos] : sp.end > sp.start}

RangeLists(most) ==
    {fr \in UNION {[1..n -> Spans] : n \in 0..most} :
        \A i, j \in DOMAIN fr :
            i < j => (fr[i].end <= fr[j].start \/ fr[j].end <= fr[i].start)}

OverlapTests(most) ==
    {[startIndex |-> sp.start, endIndex |-> sp.end, foundRanges |-> fr,
      tested |-> FALSE, isOverlapping |-> FALSE] : sp \in Spans, fr \in RangeLists(most)}

\* the test of lines 390-395 for the candidate and the ranges set up
TestOverlap ==
    /\ ~overlap.tested
    /\ overlap.endIndex > overlap.startIndex
    /\ overlap' = [overlap EXCEPT
                      !.tested = TRUE,
                      !.isOverlapping = IsOverlapping(overlap.startIndex, overlap.endIndex,
                                                      overlap.foundRanges)]
    /\ UNCHANGED <<text, results, accepted, candidates, lastIndex, dpc, log, point,
                   strategy>>
    /\ UNCHANGED <<swVars, csVars>>

\* a call of detectCurrencies on one of DollarTexts, whose matches overlap
\* one another, or an overlap test beside a call on Scenario2
InitOverlap ==
    /\ \/ text \in DollarTexts(MaxDollarTokens) /\ overlap = NoTest
       \/ text = Scenario2 /\ overlap \in OverlapTests(MaxRanges)
    /\ point = NoPoint
    /\ strategy = NoStrategy
    /\ results = <<>>
    /\ accepted = {}
    /\ candidates = {}
    /\ lastIndex = ResetIndex
    /\ dpc = "ready"
    /\ log = <<>>
    /\ ContentLoaded(TRUE)
    /\ WorkerStarted(Null, NoFields)

NextOverlap == Detect \/ TestOverlap

SpecOverlap == InitOverlap /\ [][NextOverlap]_vars

\* one call detectCurrencyAtPoint at the point set up
DetectAtPoint ==
    /\ ~point.called
    /\ LET out == detectCurrencyAtPoint(point)
       IN point' = [point EXCEPT !.called = TRUE, !.tried = out.tried,
                                 !.result = out.result]
    /\ UNCHANGED <<text, results, accepted, candidates, lastIndex, dpc, log, overlap,
                   strategy>>
    /\ UNCHANGED <<swVars, csVars>>

InitPoint ==
    /\ point \in Points
    /\ strategy = NoStrategy
    /\ text = <<>>
    /\ results = <<>>
    /\ accepted = {}
    /\ candidates = {}
    /\ lastIndex = ResetIndex
    /\ dpc = "ready"
    /\ log = <<>>
    /\ overlap = NoTest
    /\ ContentLoaded(TRUE)
    /\ WorkerStarted(Null, NoFields)

SpecPoint == InitPoint /\ [][DetectAtPoint]_vars

(***************************************************************************)
(* The three strategies on a page.  An element is its tag name, its texts  *)
(* and attributes (an absent attribute is the empty text) and its bounding *)
(* rectangle; lengths are in px.                                           *)
(***************************************************************************)
ToLowerCase(c) ==
    IF c \in UpperLetters
    THEN AlphaL[CHOOSE i \in DOMAIN AlphaU : AlphaU[i] = c]
    ELSE c

\* tagName.toLowerCase()
LowerCased(name) == [i \in DOMAIN name |-> ToLowerCase(name[i])]

\* s.includes(c), for one character c
Includes(s, c) == \E i \in DOMAIN s : s[i] = c

\* the tags detectFromTargetElement returns null for
ExcludedTags ==
    {<<"s","c","r","i","p","t">>, <<"s","t","y","l","e">>, <<"i","n","p","u","t">>,
     <<"t","e","x","t","a","r","e","a">>, <<"s","e","l","e","c","t">>,
     <<"b","o","d","y">>, <<"h","t","m","l">>, <<"h","e","a","d">>}

NumberFlowReact ==
    <<"n","u","m","b","e","r","-","f","l","o","w","-","r","e","a","c","t">>

\* isCustomElement of detectFromTargetElement
IsCustomElement(tagName) == Includes(tagName, "-") \/ tagName = NumberFlowReact

\* the text detectFromTargetElement looks for amounts in: textContent, for a
\* custom element innerText, then aria-label, title and the data attributes
ElementText(element) ==
    LET isCustomElement == IsCustomElement(LowerCased(element.tagName))
        content == Trim(element.textContent)
        inner == IF content = <<>> /\ isCustomElement
                 THEN Trim(element.innerText) ELSE content
        labelled == IF Len(inner) < 2 /\ element.ariaLabel # <<>>
                    THEN Trim(element.ariaLabel) ELSE inner
        titled == IF Len(labelled) < 2 /\ element.title # <<>>
                  THEN Trim(element.title) ELSE labelled
        dataValue == IF element.dataValue # <<>> THEN element.dataValue
                     ELSE IF element.dataAmount # <<>> THEN element.dataAmount
                     ELSE element.dataPrice
    IN IF Len(titled) < 2 /\ dataValue # <<>> THEN Trim(dataValue) ELSE titled

\* the point (x, y) is in rect grown by padding on each side
InBounds(rect, padding, x, y) ==
    /\ x >= rect.left - padding
    /\ x <= rect.right + padding
    /\ y >= rect.top - padding
    /\ y <= rect.bottom + padding

\* the variant with a maxHeight of 100 for custom elements
DetectFromTargetElement_TallCustom(element, x, y) ==
    LET tagName == LowerCased(element.tagName)
        isCustomElement == IsCustomElement(tagName)
        elementText == ElementText(element)
        maxLength == IF isCustomElement THEN 100 ELSE 50
        rect == element.rect
        padding == 5
        maxWidth == IF isCustomElement THEN 200 ELSE 150
        maxHeight == IF isCustomElement THEN 100 ELSE 60
    IN IF tagName \in ExcludedTags THEN Null
       ELSE IF Len(elementText) < 1 \/ Len(elementText) > maxLength THEN Null
       ELSE IF rect.right - rect.left > maxWidth \/ rect.bottom - rect.top > maxHeight
       THEN Null
       ELSE IF ~InBounds(rect, padding, x, y) THEN Null
       ELSE LET currencies == detectCurrencies(elementText).results
            IN IF Len(currencies) > 0 THEN currencies[1] ELSE Null

\* detectFromTargetElement(element, x, y) on an element of the page
DetectFromTargetElement(element, x, y) ==
    LET tagName == LowerCased(element.tagName)
        isCustomElement == IsCustomElement(tagName)
        elementText == ElementText(element)
        maxLength == IF isCustomElement THEN 100 ELSE 50
        rect == element.rect
        padding == 5
        maxWidth == IF isCustomElement THEN 200 ELSE 150
        maxHeight == 60
    IN IF tagName \in ExcludedTags THEN Null
       ELSE IF Len(elementText) < 1 \/ Len(elementText) > maxLength THEN Null
       ELSE IF rect.right - rect.left > maxWidth \/ rect.bottom - rect.top > maxHeight
       THEN Null
       ELSE IF ~InBounds(rect, padding, x, y) THEN Null
       ELSE LET currencies == detectCurrencies(elementText).results
            IN IF Len(currencies) > 0 THEN currencies[1] ELSE Null

\* n times the letter z
Filler(n) == [i \in 1..n |-> "z"]

Dollar10 == <<"$", "1", "0">>

\* a text of n characters that ends with $10
EndsWithPrice(n) == Filler(n - Len(Dollar10)) \o Dollar10

\* the texts of the elements: none, one letter, a price, two prices, a price
\* between spaces, and texts at and beyond the two length limits
ElementTexts ==
    {<<>>, <<"z">>, Dollar10, Scenario2, <<" ">> \o EndsWithPrice(50) \o <<" ">>,
     EndsWithPrice(51), EndsWithPrice(100), EndsWithPrice(101)}

NoAttributes ==
    [innerText |-> <<>>, ariaLabel |-> <<>>, title |-> <<>>, dataValue |-> <<>>,
     dataAmount |-> <<>>, dataPrice |-> <<>>]

HK5 == <<"H", "K", "$", "5">>

\* what the element carries next to its textContent
Attributes ==
    {NoAttributes,
     [NoAttributes EXCEPT !.innerText = HK5],
     [NoAttributes EXCEPT !.ariaLabel = HK5],
     [NoAttributes EXCEPT !.title = HK5, !.dataValue = Dollar10],
     [NoAttributes EXCEPT !.dataAmount = HK5, !.dataPrice = Dollar10]}

ElementTags ==
    {<<"S","P","A","N">>, <<"X","-","P","R","I","C","E">>, <<"I","N","P","U","T">>}

\* the widths and heights around the size limits
Widths == {150, 151, 200, 201}
Heights == {60, 61, 100, 101}

\* where the point is, relative to a side of the rectangle: beyond the
\* padding, on its edge, inside
Before(side) == {side - 6, side - 5, side + 1}
After(side) == {side + 5, side + 6}

ElementOf(tagName, textContent, attributes, rect) ==
    [tagName |-> tagName, textContent |-> textContent,
     innerText |-> attributes.innerText, ariaLabel |-> attributes.ariaLabel,
     title |-> attributes.title, dataValue |-> attributes.dataValue,
     dataAmount |-> attributes.dataAmount, dataPrice |-> attributes.dataPrice,
     rect |-> rect]

RectOf(left, top, width, height) ==
    [left |-> left, top |-> top, right |-> left + width, bottom |-> top + height]

\* one call detectFromTargetElement(element, x, y)
TargetElementCalled ==
    /\ strategy.kind = "element" /\ ~strategy.done
    /\ strategy' = [strategy EXCEPT !.done = TRUE,
                       !.result = DetectFromTargetElement(strategy.element,
                                                          strategy.x, strategy.y)]
    /\ UNCHANGED <<text, results, accepted, candidates, lastIndex, dpc, log, overlap,
                   point>>
    /\ UNCHANGED <<swVars, csVars>>

InitElement ==
    /\ \E tagName \in ElementTags, textContent \in ElementTexts,
          attributes \in Attributes, width \in Widths, height \in Heights :
          LET rect == RectOf(100, 100, width, height)
          IN \E x \in Before(rect.left) \cup After(rect.right),
                y \in Before(rect.top) \cup After(rect.bottom) :
                strategy = [kind |-> "element", done |-> FALSE, result |-> Null,
                            element |-> ElementOf(tagName, textContent, attributes, rect),
                            x |-> x, y |-> y]
    /\ point = NoPoint
    /\ text = <<>>
    /\ results = <<>>
    /\ accepted = {}
    /\ candidates = {}
    /\ lastIndex = ResetIndex
    /\ dpc = "ready"
    /\ log = <<>>
    /\ overlap = NoTest
    /\ ContentLoaded(TRUE)
    /\ WorkerStarted(Null, NoFields)

SpecElement == InitElement /\ [][TargetElementCalled]_vars

\* the tags the walk over the ancestors stops at
StopTags == {<<"b","o","d","y">>, <<"h","t","m","l">>, <<"h","e","a","d">>}

\* the while loop of detectFromParentElements: ancestors are the element's
\* ancestors from its parent up to the root, current is ancestors[depth + 1]
RECURSIVE WalkParents(_, _, _, _)
WalkParents(ancestors, depth, x, y) ==
    LET maxDepth == 15
    IN IF depth >= Len(ancestors) \/ depth >= maxDepth THEN Null
       ELSE LET current == ancestors[depth + 1]
                tagName == LowerCased(current.tagName)
                custom == IF Includes(tagName, "-")
                          THEN DetectFromTargetElement(current, x, y) ELSE Null
                result == DetectFromTargetElement(current, x, y)
            IN IF tagName \in StopTags THEN Null
               ELSE IF custom # Null THEN custom
               ELSE IF result # Null THEN result
               ELSE WalkParents(ancestors, depth + 1, x, y)

\* detectFromParentElements(element, x, y); the element is given by the
\* chain of its ancestors
DetectFromParentElements(ancestors, x, y) == WalkParents(ancestors, 0, x, y)

\* the longest chain of ancestors enumerated above the wrappers
MaxChain == 3

\* the point of the calls, and a small box around it
Pointer == [x |-> 110, y |-> 110]
SmallRect == RectOf(100, 100, 40, 20)

\* the ancestors a chain is made of: a wide wrapper, an ordinary and a custom
\* element with a price, and a body that would match if it were examined
Wrapper ==
    ElementOf(<<"D","I","V">>, Dollar10, NoAttributes, RectOf(0, 0, 800, 20))
OrdinaryPrice == ElementOf(<<"S","P","A","N">>, Dollar10, NoAttributes, SmallRect)
CustomPrice ==
    ElementOf(<<"X","-","P","R","I","C","E">>, HK5 \o <<" ">> \o Dollar10,
              NoAttributes, SmallRect)
Body == ElementOf(<<"B","O","D","Y">>, Dollar10, NoAttributes, SmallRect)

AncestorKinds == {Wrapper, OrdinaryPrice, CustomPrice, Body}

\* how many wrappers stand between the element and the rest of the chain
WrapperCounts == {0, 13, 14, 15}

\* the chains: n wrappers, then up to most ancestors of any kind
Chains(most) ==
    {[i \in 1..n |-> Wrapper] \o rest :
        n \in WrapperCounts,
        rest \in UNION {[1..k -> AncestorKinds] : k \in 0..most}}

\* one call detectFromParentElements(element, x, y)
ParentElementsCalled ==
    /\ strategy.kind = "parents" /\ ~strategy.done
    /\ strategy' = [strategy EXCEPT !.done = TRUE,
                       !.result = DetectFromParentElements(strategy.ancestors,
                                                           strategy.x, strategy.y)]
    /\ UNCHANGED <<text, results, accepted, candidates, lastIndex, dpc, log, overlap,
                   point>>
    /\ UNCHANGED <<swVars, csVars>>

InitParents ==
    /\ \E ancestors \in Chains(MaxChain) :
          strategy = [kind |-> "parents", done |-> FALSE, result |-> Null,
                      ancestors |-> ancestors, x |-> Pointer.x, y |-> Pointer.y]
    /\ point = NoPoint
    /\ text = <<>>
    /\ results = <<>>
    /\ accepted = {}
    /\ candidates = {}
    /\ lastIndex = ResetIndex
    /\ dpc = "ready"
    /\ log = <<>>
    /\ overlap = NoTest
    /\ ContentLoaded(TRUE)
    /\ WorkerStarted(Null, NoFields)

SpecParents == InitParents /\ [][ParentElementsCalled]_vars

(***************************************************************************)
(* The caret strategy.  document.caretRangeFromPoint(x, y) is given by the *)
(* page: it throws (not supported), returns null, a range that starts in   *)
(* an element, or a range at an offset of a text node.  The text node is   *)
(* laid out on one line, every character Line.charWidth wide.              *)
(***************************************************************************)
Line == [left |-> 100, top |-> 100, height |-> 16, charWidth |-> 8]

\* range.getBoundingClientRect() of the range startOffset..endOffset
RangeRect(startOffset, endOffset) ==
    [left |-> Line.left + startOffset * Line.charWidth,
     right |-> Line.left + endOffset * Line.charWidth,
     top |-> Line.top, bottom |-> Line.top + Line.height]

\* the variant with the padding of positionTooltip, 10px
IsPointInTextRange_WidePadding(startOffset, endOffset, x, y) ==
    LET rect == RangeRect(startOffset, endOffset)
        padding == 10
    IN /\ x >= rect.left - padding
       /\ x <= rect.right + padding
       /\ y >= rect.top - padding
       /\ y <= rect.bottom + padding

\* isPointInTextRange(textNode, startOffset, endOffset, x, y)
IsPointInTextRange(startOffset, endOffset, x, y) ==
    LET rect == RangeRect(startOffset, endOffset)
        padding == 5
    IN /\ x >= rect.left - padding
       /\ x <= rect.right + padding
       /\ y >= rect.top - padding
       /\ y <= rect.bottom + padding

Max(a, b) == IF a >= b THEN a ELSE b
Min(a, b) == IF a <= b THEN a ELSE b

\* the for loop of detectFromCaretRange, from the i-th currency on
RECURSIVE FirstAtCaret(_, _, _, _, _, _)
FirstAtCaret(currencies, i, relativeOffset, start, x, y) ==
    IF i > Len(currencies) THEN Null
    ELSE LET currency == currencies[i]
             actualStart == currency.startIndex + start
             actualEnd == currency.endIndex + start
         IN IF /\ relativeOffset >= currency.startIndex
               /\ relativeOffset <= currency.endIndex
               /\ IsPointInTextRange(actualStart, actualEnd, x, y)
            THEN [currency EXCEPT !.startIndex = actualStart, !.endIndex = actualEnd]
            ELSE FirstAtCaret(currencies, i + 1, relativeOffset, start, x, y)

\* detectFromCaretRange(x, y), range being what caretRangeFromPoint gives
DetectFromCaretRange(range, x, y) ==
    IF range.kind # "text" THEN Null
    ELSE LET offset == range.offset
             start == Max(0, offset - 50)
             end == Min(Len(range.text), offset + 50)
             surroundingText == Substring(range.text, start, end)
             currencies == detectCurrencies(surroundingText).results
             relativeOffset == offset - start
         IN FirstAtCaret(currencies, 1, relativeOffset, start, x, y)

\* how many letters stand before and after the price of the long text
MaxFiller == 60

\* the text nodes: two prices side by side, and a price far from both ends
CaretTexts(n) ==
    {Dollar10 \o HK5, Filler(n) \o <<" ">> \o Dollar10 \o <<" ">> \o Filler(n)}

\* what caretRangeFromPoint gives: no range, or a caret in one of the texts
CaretRanges(n) ==
    {[kind |-> k, text |-> <<>>, offset |-> 0] : k \in {"throws", "null", "element"}}
    \cup {[kind |-> "text", text |-> t, offset |-> o] :
             t \in CaretTexts(n), o \in 0..(2 * n + 5)}

\* the point, relative to the caret: at it, or 30px to its left or right;
\* on the line, on the edge of the padding under it, or beyond
CaretXs(range) ==
    {Line.left + range.offset * Line.charWidth + dx : dx \in {-30, 0, 30}}
CaretYs == {Line.top + 8, Line.top + Line.height + 5, Line.top + Line.height + 6}

\* one call detectFromCaretRange(x, y)
CaretRangeCalled ==
    /\ strategy.kind = "caret" /\ ~strategy.done
    /\ strategy' = [strategy EXCEPT !.done = TRUE,
                       !.result = DetectFromCaretRange(strategy.range,
                                                       strategy.x, strategy.y)]
    /\ UNCHANGED <<text, results, accepted, candidates, lastIndex, dpc, log, overlap,
                   point>>
    /\ UNCHANGED <<swVars, csVars>>

InitCaret ==
    /\ \E range \in CaretRanges(MaxFiller) :
          /\ range.offset <= Len(range.text)
          /\ \E x \in CaretXs(range), y \in CaretYs :
                strategy = [kind |-> "caret", done |-> FALSE, result |-> Null,
                            range |-> range, x |-> x, y |-> y]
    /\ point = NoPoint
    /\ text = <<>>
    /\ results = <<>>
    /\ accepted = {}
    /\ candidates = {}
    /\ lastIndex = ResetIndex
    /\ dpc = "ready"
    /\ log = <<>>
    /\ overlap = NoTest
    /\ ContentLoaded(TRUE)
    /\ WorkerStarted(Null, NoFields)

SpecCaret == InitCaret /\ [][CaretRangeCalled]_vars

\* the texts of the calls that follow one another
MaxDetects == 3

RecallTexts ==
    { <<"$","1"," ","$","2">>, <<"U","S","$","1"," ","H","K","$","2">>,
      <<"1"," ","U","S","D"," ","U","S","D"," ","2">>, <<"S","$","1">>,
      <<"n","o","n","e">> }

\* the scan positions a call would leave if no exec reset them: for each
\* rule the end of its last match
LastMatchEnds(execs) ==
    [r \in Rules |->
        LET ends == {e.end : e \in {x \in execs : x.rule = r}}
        IN IF ends = {} THEN 0 ELSE CHOOSE e \in ends : \A f \in ends : f <= e]

\* a call that neither resets the scan positions nor leaves them at 0
Redetect_Carrying(t) ==
    /\ Len(log) < MaxDetects
    /\ text' = t
    /\ LET acc == ScanAll(t, lastIndex)
       IN /\ Returns([results |-> SortByStart(acc.results), accepted |-> RangesOf(acc),
                      candidates |-> ExecsOf(acc)])
          /\ lastIndex' = LastMatchEnds(ExecsOf(acc))
    /\ dpc' = "done"
    /\ log' = Append(log, [text |-> t, results |-> results'])
    /\ UNCHANGED <<overlap, point, strategy>>
    /\ UNCHANGED <<swVars, csVars>>

\* one more call detectCurrencies(t), on the patterns the calls before it
\* have used
Redetect(t) ==
    /\ Len(log) < MaxDetects
    /\ text' = t
    /\ Returns(detectCurrencies(t))
    /\ lastIndex' = ResetIndex
    /\ dpc' = "done"
    /\ log' = Append(log, [text |-> t, results |-> results'])
    /\ UNCHANGED <<overlap, point, strategy>>
    /\ UNCHANGED <<swVars, csVars>>

NextRedetect == \E t \in RecallTexts : Redetect(t)

SpecRedetect == InitDetect({<<>>}) /\ [][NextRedetect]_vars

(***************************************************************************)
(* The service worker as a state machine                                   *)
(***************************************************************************)
InitWorker ==
    /\ text = <<>>
    /\ results = <<>>
    /\ accepted = {}
    /\ candidates = {}
    /\ lastIndex = ResetIndex
    /\ dpc = "ready"
    /\ log = <<>>
    /\ overlap = NoTest
    /\ point = NoPoint
    /\ strategy = NoStrategy
    /\ ContentLoaded(TRUE)
    /\ \E stored \in {Null, OldTable} : WorkerStarted(stored, NoFields)

RateTypes == {"CONVERT_TO_YEN", "GET_ALL_RATES"}
SettingsTypes == {"GET_SETTINGS", "SET_SETTINGS"}

Success(x) == [success |-> TRUE, data |-> x, error |-> ""]
Failure(e) == [success |-> FALSE, data |-> Null, error |-> e]

\* handleMessage resolves and sendResponse is called with its envelope
Respond(call, envelope) ==
    [call EXCEPT !.pc = "done", !.response = envelope, !.sent = @ + 1]

\* getExchangeRates has returned tbl: the rest of the message's case
RatesReturned(call, tbl, how) ==
    LET c2 == [call EXCEPT !.table = tbl, !.via = how, !.rates = "returned"]
    IN IF call.msg.type = "CONVERT_TO_YEN"
       THEN LET result == convertToYen(call.msg.amount, call.msg.currency, tbl)
            IN IF result.ok
               THEN Respond(c2, Success(result.value))
               ELSE Respond(c2, Failure(result.error))
       ELSE Respond(c2, Success(tbl))

\* getExchangeRates has thrown: the catch of handleMessage
RatesRejected_Escapes(call, error) ==
    [call EXCEPT !.rates = "rejected", !.pc = "done"]

RatesRejected(call, error) ==
    Respond([call EXCEPT !.rates = "rejected"], Failure(error))

\* "empty", "fresh" or "expired": a cache tier holding tbl at time t
TierState(tbl, t) ==
    IF tbl = Null THEN "empty" ELSE IF IsFresh(tbl, t) THEN "fresh" ELSE "expired"

\* the handlers that have been received and have not answered yet
UnderWay == {d \in CallIds : calls[d].pc \notin {"idle", "done"}}

\* a listener that persists the slot's table again each time it answers
\* from the slot
Receive_WritesThrough(c, m) ==
    /\ calls[c].pc = "idle"
    /\ \A d \in CallIds : d < c => calls[d].pc # "idle"
    /\ LET call == [calls[c] EXCEPT
                       !.msg = m,
                       !.alone = UnderWay = {},
                       !.soonAfter = c > 1 /\ now - receivedAt < CACHE_DURATION,
                       !.slotWas = TierState(memoryCache, now)]
           hit == m.type \in RateTypes /\ memoryCache # Null /\ IsFresh(memoryCache, now)
       IN /\ calls' = [calls EXCEPT ![c] =
               IF m.type \in RateTypes
               THEN IF hit
                    THEN RatesReturned(call, memoryCache, "memory")
                    ELSE [call EXCEPT !.pc = "get", !.stored = localStore]
               ELSE IF m.type \in SettingsTypes
               THEN [call EXCEPT !.pc = "sget"]
               ELSE Respond(call, Failure("unknown message type"))]
          /\ localStore' = IF hit THEN memoryCache ELSE localStore
    /\ receivedAt' = now
    /\ UNCHANGED <<memoryCache, syncStore, now>>
    /\ UNCHANGED <<detVars, csVars>>

\* the listener is called with message m; the handler runs to its first
\* await that does not resolve at once
Receive(c, m) ==
    /\ calls[c].pc = "idle"
    /\ \A d \in CallIds : d < c => calls[d].pc # "idle"
    /\ LET call == [calls[c] EXCEPT
                       !.msg = m,
                       !.alone = UnderWay = {},
                       !.soonAfter = c > 1 /\ now - receivedAt < CACHE_DURATION,
                       !.slotWas = TierState(memoryCache, now)]
       IN calls' = [calls EXCEPT ![c] =
            IF m.type \in RateTypes
            THEN IF memoryCache # Null /\ IsFresh(memoryCache, now)
                 THEN RatesReturned(call, memoryCache, "memory")
                 ELSE [call EXCEPT !.pc = "get", !.stored = localStore]
            ELSE IF m.type \in SettingsTypes
            THEN [call EXCEPT !.pc = "sget"]
            ELSE Respond(call, Failure("unknown message type"))]
    /\ receivedAt' = now
    /\ UNCHANGED <<memoryCache, localStore, syncStore, now>>
    /\ UNCHANGED <<detVars, csVars>>

\* chrome.storage.local.get resolves
StorageGetResolved_NoPromote(c) ==
    /\ calls[c].pc = "get"
    /\ calls' = [calls EXCEPT ![c] =
          IF calls[c].stored # Null /\ IsFresh(calls[c].stored, now)
          THEN RatesReturned(@, calls[c].stored, "storage")
          ELSE [@ EXCEPT !.pc = "fetch", !.fetches = @ + 1, !.stored = Null]]
    /\ UNCHANGED <<memoryCache, localStore, syncStore, now>>
    /\ UNCHANGED <<receivedAt, detVars, csVars>>

\* a call that finds no fresh record while another call's fetch is in
\* flight takes that one instead of issuing its own
StorageGetResolved_SingleFlight(c) ==
    /\ calls[c].pc = "get"
    /\ IF calls[c].stored # Null /\ IsFresh(calls[c].stored, now)
       THEN /\ memoryCache' = calls[c].stored
            /\ calls' = [calls EXCEPT ![c] =
                  RatesReturned(@, calls[c].stored, "storage")]
       ELSE /\ memoryCache' = memoryCache
            /\ calls' = [calls EXCEPT ![c] =
                  [@ EXCEPT !.pc = "fetch", !.stored = Null,
                            !.fetches = IF \E d \in CallIds : calls[d].pc \in {"fetch", "json"}
                                        THEN @ ELSE @ + 1]]
    /\ UNCHANGED <<localStore, syncStore, now>>
    /\ UNCHANGED <<receivedAt, detVars, csVars>>

StorageGetResolved(c) ==
    /\ calls[c].pc = "get"
    /\ IF calls[c].stored # Null /\ IsFresh(calls[c].stored, now)
       THEN /\ memoryCache' = calls[c].stored
            /\ calls' = [calls EXCEPT ![c] =
                  RatesReturned(@, calls[c].stored, "storage")]
       ELSE /\ memoryCache' = memoryCache
            /\ calls' = [calls EXCEPT ![c] =
                  [@ EXCEPT !.pc = "fetch", !.fetches = @ + 1, !.stored = Null]]
    /\ UNCHANGED <<localStore, syncStore, now>>
    /\ UNCHANGED <<receivedAt, detVars, csVars>>

\* chrome.storage.local.get rejects: the catch, then the fetch
StorageGetRejected_Propagates(c) ==
    /\ calls[c].pc = "get"
    /\ calls' = [calls EXCEPT ![c] =
          RatesRejected([@ EXCEPT !.readFailed = TRUE, !.stored = Null], "storage error")]
    /\ UNCHANGED <<memoryCache, localStore, syncStore, now>>
    /\ UNCHANGED <<receivedAt, detVars, csVars>>

StorageGetRejected(c) ==
    /\ calls[c].pc = "get"
    /\ calls' = [calls EXCEPT ![c] =
          [@ EXCEPT !.pc = "fetch", !.fetches = @ + 1, !.readFailed = TRUE,
                    !.stored = Null]]
    /\ UNCHANGED <<memoryCache, localStore, syncStore, now>>
    /\ UNCHANGED <<receivedAt, detVars, csVars>>

\* fetch rejects (a network error)
FetchRejected_ClearsCache(c) ==
    /\ calls[c].pc = "fetch"
    /\ memoryCache' = Null
    /\ calls' = [calls EXCEPT ![c] = RatesRejected(@, "Failed to fetch")]
    /\ UNCHANGED <<localStore, syncStore, now>>
    /\ UNCHANGED <<receivedAt, detVars, csVars>>

FetchRejected(c) ==
    /\ calls[c].pc = "fetch"
    /\ calls' = [calls EXCEPT ![c] = RatesRejected(@, "Failed to fetch")]
    /\ UNCHANGED <<memoryCache, localStore, syncStore, now>>
    /\ UNCHANGED <<receivedAt, detVars, csVars>>

\* fetch resolves with a response that is not ok
FetchNotOk(c) ==
    /\ calls[c].pc = "fetch"
    /\ calls' = [calls EXCEPT ![c] = RatesRejected(@, "API error")]
    /\ UNCHANGED <<memoryCache, localStore, syncStore, now>>
    /\ UNCHANGED <<receivedAt, detVars, csVars>>

\* fetch resolves with an ok response
FetchOk(c) ==
    /\ calls[c].pc = "fetch"
    /\ calls' = [calls EXCEPT ![c] = [@ EXCEPT !.pc = "json"]]
    /\ UNCHANGED <<memoryCache, localStore, syncStore, now>>
    /\ UNCHANGED <<receivedAt, detVars, csVars>>

\* response.json() rejects
JsonRejected(c) ==
    /\ calls[c].pc = "json"
    /\ calls' = [calls EXCEPT ![c] = RatesRejected(@, "invalid JSON")]
    /\ UNCHANGED <<memoryCache, localStore, syncStore, now>>
    /\ UNCHANGED <<receivedAt, detVars, csVars>>

\* response.json() resolves with data: the table is built and put in the
\* slot, and chrome.storage.local.set is called
JsonResolved_KeepsSlot(c, data) ==
    /\ calls[c].pc = "json"
    /\ calls' = [calls EXCEPT ![c] =
          [@ EXCEPT !.pc = "set", !.data = data, !.table = MakeTable(data, now),
                    !.builtAt = now]]
    /\ UNCHANGED <<memoryCache, localStore, syncStore, now>>
    /\ UNCHANGED <<receivedAt, detVars, csVars>>

\* a handler that replaces the rates of the table in the slot and leaves
\* its date and fetchedAt
JsonResolved_UpdatesInPlace(c, data) ==
    /\ calls[c].pc = "json"
    /\ LET cachedRates == MakeTable(data, now)
           updated == IF memoryCache = Null THEN cachedRates
                      ELSE [memoryCache EXCEPT !.rates = cachedRates.rates]
       IN /\ memoryCache' = updated
          /\ calls' = [calls EXCEPT ![c] =
                [@ EXCEPT !.pc = "set", !.data = data, !.table = updated,
                          !.builtAt = now]]
    /\ UNCHANGED <<localStore, syncStore, now>>
    /\ UNCHANGED <<receivedAt, detVars, csVars>>

JsonResolved(c, data) ==
    /\ calls[c].pc = "json"
    /\ LET cachedRates == MakeTable(data, now)
       IN /\ memoryCache' = cachedRates
          /\ calls' = [calls EXCEPT ![c] =
                [@ EXCEPT !.pc = "set", !.data = data, !.table = cachedRates,
                          !.builtAt = now]]
    /\ UNCHANGED <<localStore, syncStore, now>>
    /\ UNCHANGED <<receivedAt, detVars, csVars>>

\* chrome.storage.local.set resolves
StorageSetResolved(c) ==
    /\ calls[c].pc = "set"
    /\ localStore' = calls[c].table
    /\ calls' = [calls EXCEPT ![c] = RatesReturned(@, calls[c].table, "fetch")]
    /\ UNCHANGED <<memoryCache, syncStore, now>>
    /\ UNCHANGED <<receivedAt, detVars, csVars>>

\* chrome.storage.local.set rejects: the catch, then the return
StorageSetRejected(c) ==
    /\ calls[c].pc = "set"
    /\ calls' = [calls EXCEPT ![c] =
          RatesReturned([@ EXCEPT !.writeFailed = TRUE], calls[c].table, "fetch")]
    /\ UNCHANGED <<memoryCache, localStore, syncStore, now>>
    /\ UNCHANGED <<receivedAt, detVars, csVars>>

\* getSettings has returned current: GET_SETTINGS answers, SET_SETTINGS
\* goes on to chrome.storage.sync.set
SettingsRead(call, current) ==
    IF call.msg.type = "GET_SETTINGS"
    THEN Respond(call, Success(current))
    ELSE [call EXCEPT !.pc = "sset", !.settings = Spread(current, call.msg.settings)]

\* chrome.storage.sync.get resolves
SyncGetResolved(c) ==
    /\ calls[c].pc = "sget"
    /\ calls' = [calls EXCEPT ![c] = SettingsRead(@, Spread(DEFAULT_SETTINGS, syncStore))]
    /\ UNCHANGED <<memoryCache, localStore, syncStore, now>>
    /\ UNCHANGED <<receivedAt, detVars, csVars>>

\* chrome.storage.sync.get rejects: the catch returns the defaults
SyncGetRejected(c) ==
    /\ calls[c].pc = "sget"
    /\ calls' = [calls EXCEPT ![c] =
          SettingsRead([@ EXCEPT !.readFailed = TRUE], DEFAULT_SETTINGS)]
    /\ UNCHANGED <<memoryCache, localStore, syncStore, now>>
    /\ UNCHANGED <<receivedAt, detVars, csVars>>

\* chrome.storage.sync.set resolves
SyncSetResolved(c) ==
    /\ calls[c].pc = "sset"
    /\ syncStore' = calls[c].settings
    /\ calls' = [calls EXCEPT ![c] = Respond(@, Success(calls[c].settings))]
    /\ UNCHANGED <<memoryCache, localStore, now>>
    /\ UNCHANGED <<receivedAt, detVars, csVars>>

\* chrome.storage.sync.set rejects: setSettings throws
SyncSetRejected(c) ==
    /\ calls[c].pc = "sset"
    /\ calls' = [calls EXCEPT ![c] =
          Respond([@ EXCEPT !.writeFailed = TRUE], Failure("storage error"))]
    /\ UNCHANGED <<memoryCache, localStore, syncStore, now>>
    /\ UNCHANGED <<receivedAt, detVars, csVars>>

\* half an hour passes
Tick ==
    /\ now < MaxTicks * (CACHE_DURATION \div 2)
    /\ now' = now + CACHE_DURATION \div 2
    /\ UNCHANGED <<memoryCache, localStore, syncStore, calls>>
    /\ UNCHANGED <<receivedAt, detVars, csVars>>

\* the steps of getExchangeRates
NextRates ==
    \/ \E c \in CallIds : StorageGetResolved(c)
    \/ \E c \in CallIds : StorageGetRejected(c)
    \/ \E c \in CallIds : FetchRejected(c)
    \/ \E c \in CallIds : FetchNotOk(c)
    \/ \E c \in CallIds : FetchOk(c)
    \/ \E c \in CallIds : JsonRejected(c)
    \/ \E c \in CallIds, data \in Payloads : JsonResolved(c, data)
    \/ \E c \in CallIds : StorageSetResolved(c)
    \/ \E c \in CallIds : StorageSetRejected(c)

\* the rate cache under GET_ALL_RATES messages, as time passes
NextCache ==
    \/ \E c \in CallIds : Receive(c, AllRatesMessage)
    \/ NextRates
    \/ Tick

SpecCache == InitWorker /\ [][NextCache]_vars

\* the steps of getSettings and setSettings
NextSettings ==
    \/ \E c \in CallIds : SyncGetResolved(c)
    \/ \E c \in CallIds : SyncGetRejected(c)
    \/ \E c \in CallIds : SyncSetResolved(c)
    \/ \E c \in CallIds : SyncSetRejected(c)

\* the listener under every kind of message
NextListener ==
    \/ \E c \in CallIds, m \in Messages : Receive(c, m)
    \/ NextRates
    \/ NextSettings

SpecListener == InitWorker /\ [][NextListener]_vars

\* the listener under the messages that call getExchangeRates
NextConvert ==
    \/ \E c \in CallIds, m \in RateMessages : Receive(c, m)
    \/ NextRates

SpecConvert == InitWorker /\ [][NextConvert]_vars

\* the settings under GET_SETTINGS and SET_SETTINGS messages
InitSettings ==
    /\ text = <<>>
    /\ results = <<>>
    /\ accepted = {}
    /\ candidates = {}
    /\ lastIndex = ResetIndex
    /\ dpc = "ready"
    /\ log = <<>>
    /\ overlap = NoTest
    /\ point = NoPoint
    /\ strategy = NoStrategy
    /\ ContentLoaded(TRUE)
    /\ \E synced \in StoredSettings : WorkerStarted(Null, synced)

NextSettingsOnly ==
    \/ \E c \in CallIds, m \in SettingsMessages : Receive(c, m)
    \/ NextSettings

SpecSettings == InitSettings /\ [][NextSettingsOnly]_vars

(***************************************************************************)
(* The content script as a state machine                                   *)
(***************************************************************************)
\* a mousemove over target: handleMouseMove.  While the extension is switched
\* off the handler returns at once: the pending timer is neither cleared nor
\* replaced; its field followed records that a later mousemove was received.
MouseMove(target) ==
    /\ target = "tooltip" => tooltip.display = "block"
    /\ IF isEnabled
       THEN mouseMoveTimer' = [target |-> target, left |-> DEBOUNCE_DELAY,
                               followed |-> FALSE]
       ELSE /\ mouseMoveTimer # Null
            /\ mouseMoveTimer' = [mouseMoveTimer EXCEPT !.followed = TRUE]
    /\ UNCHANGED <<isEnabled, lastDetectedCurrency, showTimer, hideTimers, hideTimer,
                   requests, tooltip, switchedOff, called>>
    /\ UNCHANGED <<detVars, swVars>>

\* the debounce timer fires: processMousePosition(event)
DebounceFires ==
    /\ mouseMoveTimer # Null /\ mouseMoveTimer.left = 0
    /\ mouseMoveTimer' = Null
    /\ LET currency == DetectedAt(mouseMoveTimer.target)
       IN IF mouseMoveTimer.target = "tooltip"
          THEN /\ SetTimers(cancelHideTooltip(TooltipTimers))
               /\ called' = [called EXCEPT !.cancelled = TRUE]
               /\ UNCHANGED lastDetectedCurrency
          ELSE IF currency # Null
          THEN IF /\ lastDetectedCurrency # Null
                  /\ lastDetectedCurrency.originalText = currency.originalText
                  /\ lastDetectedCurrency.startIndex = currency.startIndex
               THEN /\ SetTimers(cancelHideTooltip(TooltipTimers))
                    /\ called' = [called EXCEPT !.cancelled = TRUE]
                    /\ UNCHANGED lastDetectedCurrency
               ELSE /\ lastDetectedCurrency' = currency
                    /\ SetTimers(showTooltip(TooltipTimers, currency))
                    /\ called' = [called EXCEPT !.last = "showTooltip",
                                                !.shown = currency.originalText]
          ELSE IF lastDetectedCurrency # Null
               THEN /\ Len(hideTimers) < MaxHides
                    /\ lastDetectedCurrency' = Null
                    /\ SetTimers(hideTooltip(TooltipTimers))
                    /\ called' = HideCalled
               ELSE UNCHANGED <<lastDetectedCurrency, showTimer, hideTimers, hideTimer,
                                called>>
    /\ UNCHANGED <<isEnabled, requests, tooltip, switchedOff>>
    /\ UNCHANGED <<detVars, swVars>>

\* a mouseout that leaves the document: handleMouseOut
MouseOut ==
    /\ Len(hideTimers) < MaxHides
    /\ lastDetectedCurrency' = Null
    /\ SetTimers(hideTooltip(TooltipTimers))
    /\ called' = HideCalled
    /\ UNCHANGED <<isEnabled, mouseMoveTimer, requests, tooltip, switchedOff>>
    /\ UNCHANGED <<detVars, swVars>>

\* a scroll event
Scroll ==
    /\ Len(hideTimers) < MaxHides
    /\ lastDetectedCurrency' = Null
    /\ SetTimers(hideTooltip(TooltipTimers))
    /\ called' = HideCalled
    /\ UNCHANGED <<isEnabled, mouseMoveTimer, requests, tooltip, switchedOff>>
    /\ UNCHANGED <<detVars, swVars>>

\* chrome.storage.onChanged with new settings: the settings listener
SettingsChanged(enabled) ==
    /\ isEnabled' = enabled
    /\ switchedOff' = ~enabled
    /\ IF enabled
       THEN UNCHANGED <<showTimer, hideTimers, hideTimer, called>>
       ELSE /\ Len(hideTimers) < MaxHides
            /\ SetTimers(hideTooltip(TooltipTimers))
            /\ called' = HideCalled
    /\ UNCHANGED <<lastDetectedCurrency, mouseMoveTimer, requests, tooltip>>
    /\ UNCHANGED <<detVars, swVars>>

\* the show timer fires: the conversion request is sent
ShowFires ==
    /\ showTimer # Null /\ showTimer.left = 0
    /\ Len(requests) < MaxRequests
    /\ requests' = Append(requests, showTimer.currency)
    /\ showTimer' = Null
    /\ UNCHANGED <<isEnabled, lastDetectedCurrency, mouseMoveTimer, hideTimers, hideTimer,
                   tooltip, switchedOff, called>>
    /\ UNCHANGED <<detVars, swVars>>

\* requests without the i-th
Without(seq, i) == SubSeq(seq, 1, i - 1) \o SubSeq(seq, i + 1, Len(seq))

\* a conversion is answered with success: the tooltip is filled and shown
ResponseOk(i) ==
    /\ i \in DOMAIN requests
    /\ requests' = Without(requests, i)
    /\ tooltip' = [display |-> "block", original |-> requests[i].originalText]
    /\ UNCHANGED <<isEnabled, lastDetectedCurrency, mouseMoveTimer, showTimer, hideTimers,
                   hideTimer, switchedOff, called>>
    /\ UNCHANGED <<detVars, swVars>>

\* sendMessage rejects, or the answer is no success: the callback returns
ResponseFailed(i) ==
    /\ i \in DOMAIN requests
    /\ requests' = Without(requests, i)
    /\ UNCHANGED <<isEnabled, lastDetectedCurrency, mouseMoveTimer, showTimer, hideTimers,
                   hideTimer, tooltip, switchedOff, called>>
    /\ UNCHANGED <<detVars, swVars>>

\* a hide timer fires: the tooltip is hidden and hideTimer is set to null
HideFires(i) ==
    /\ i \in DOMAIN hideTimers /\ hideTimers[i] = 0
    /\ hideTimers' = Without(hideTimers, i)
    /\ hideTimer' = FALSE
    /\ tooltip' = [tooltip EXCEPT !.display = "none"]
    /\ UNCHANGED <<isEnabled, lastDetectedCurrency, mouseMoveTimer, showTimer, requests,
                   switchedOff, called>>
    /\ UNCHANGED <<detVars, swVars>>

\* a timer is due
Due ==
    \/ mouseMoveTimer # Null /\ mouseMoveTimer.left = 0
    \/ showTimer # Null /\ showTimer.left = 0
    \/ \E i \in DOMAIN hideTimers : hideTimers[i] = 0

\* DEBOUNCE_DELAY ms pass, no timer being due
TimePasses ==
    /\ ~Due
    /\ mouseMoveTimer # Null \/ showTimer # Null \/ hideTimers # <<>>
    /\ mouseMoveTimer' = IF mouseMoveTimer = Null THEN Null
                         ELSE [mouseMoveTimer EXCEPT !.left = @ - DEBOUNCE_DELAY]
    /\ showTimer' = IF showTimer = Null THEN Null
                    ELSE [showTimer EXCEPT !.left = @ - DEBOUNCE_DELAY]
    /\ hideTimers' = [i \in DOMAIN hideTimers |-> hideTimers[i] - DEBOUNCE_DELAY]
    /\ UNCHANGED <<isEnabled, lastDetectedCurrency, hideTimer, requests, tooltip,
                   switchedOff, called>>
    /\ UNCHANGED <<detVars, swVars>>

InitContent ==
    /\ text = <<>>
    /\ results = <<>>
    /\ accepted = {}
    /\ candidates = {}
    /\ lastIndex = ResetIndex
    /\ dpc = "ready"
    /\ log = <<>>
    /\ overlap = NoTest
    /\ point = NoPoint
    /\ strategy = NoStrategy
    /\ WorkerStarted(Null, NoFields)
    /\ \E enabled \in BOOLEAN : ContentLoaded(enabled)

NextContent ==
    \/ \E target \in Targets : MouseMove(target)
    \/ DebounceFires
    \/ MouseOut
    \/ Scroll
    \/ \E enabled \in BOOLEAN : SettingsChanged(enabled)
    \/ ShowFires
    \/ \E i \in 1..MaxRequests : ResponseOk(i)
    \/ \E i \in 1..MaxRequests : ResponseFailed(i)
    \/ \E i \in 1..MaxHides : HideFires(i)
    \/ TimePasses

SpecContent == InitContent /\ [][NextContent]_vars

\* The browser runs a timer's callback once the timer is due, lets time pass
\* and settles the promise of chrome.runtime.sendMessage.
FairContent ==
    /\ WF_vars(DebounceFires)
    /\ WF_vars(ShowFires)
    /\ WF_vars(\E i \in 1..MaxHides : HideFires(i))
    /\ WF_vars(TimePasses)
    /\ WF_vars(\E i \in 1..MaxRequests : ResponseOk(i) \/ ResponseFailed(i))

SpecContentFair == InitContent /\ [][NextContent]_vars /\ FairContent

(***************************************************************************)
(* Properties of detectCurrencies                                          *)
(***************************************************************************)
\* the half-open spans [s1, e1) and [s2, e2) intersect
Intersects(s1, e1, s2, e2) == s1 < e2 /\ s2 < e1

\* the number a candidate's captured text parses to, before any check
RawAmount(c) == ParseFloat(RemoveCommas(Trim(c.num)))

\* parseFloat gave NaN, a value <= 0 or a value > 1e9
BadNumber(c) ==
    LET a == RawAmount(c) IN a.nan \/ IsNonPositive(a) \/ ExceedsMax(a)

\* a candidate with a code and a valid amount
ValidCandidate(c) == c.code # "" /\ ~BadNumber(c)

\* the output holds a record for the candidate's span
HasRecord(c) ==
    \E i \in DOMAIN results :
        results[i].startIndex = c.start /\ results[i].endIndex = c.end

\* the candidate was pushed by its own rule and is in the returned list
InOutput(c) ==
    /\ [rule |-> c.rule, start |-> c.start, end |-> c.end] \in accepted
    /\ HasRecord(c)

\* C1: the list detectCurrencies returns has pairwise non-intersecting
\* half-open spans and is in ascending order of startIndex.
C1_DisjointAndSorted ==
    dpc = "done" =>
        /\ \A i, j \in DOMAIN results :
              i # j => ~Intersects(results[i].startIndex, results[i].endIndex,
                                   results[j].startIndex, results[j].endIndex)
        /\ \A i, j \in DOMAIN results :
              i < j => results[i].startIndex <= results[j].startIndex

\* a call where a later rule's match stands before an earlier rule's match
\* (the push order is not the text order) and an intersecting candidate
\* was turned down
C1_Witness ==
    /\ dpc = "done"
    /\ Len(results) >= 2
    /\ \E a, b \in accepted : a.rule < b.rule /\ b.start < a.start
    /\ \E c \in candidates : ValidCandidate(c) /\ ~InOutput(c)

\* C2: every returned record has 0 < amount <= 1e9, a code other than JPY
\* and endIndex > startIndex; a candidate whose number parses to NaN, to a
\* value <= 0 or to a value > 1e9 has no record in the output.
C2_AmountsValid ==
    dpc = "done" =>
        /\ \A i \in DOMAIN results :
              /\ ~results[i].amount.nan
              /\ ~IsNonPositive(results[i].amount)
              /\ ~ExceedsMax(results[i].amount)
              /\ results[i].code # "JPY"
              /\ results[i].endIndex > results[i].startIndex
        /\ \A c \in candidates : BadNumber(c) => ~HasRecord(c)

\* a call that meets a candidate just above 1e9 (1e9 and a fraction) and
\* leaves it out
C2_Witness ==
    /\ dpc = "done"
    /\ \E c \in candidates :
          /\ RawAmount(c).units = MAX_AMOUNT /\ RawAmount(c).cents > 0
          /\ ~HasRecord(c)

\* C3 as claimed: of two valid candidates of different rules whose spans
\* intersect, the earlier rule's is in the output and the later rule's is
\* not.
C3_HigherPriorityAlwaysWins ==
    dpc = "done" =>
        \A c1, c2 \in candidates :
            (/\ c1.rule < c2.rule
             /\ ValidCandidate(c1) /\ ValidCandidate(c2)
             /\ Intersects(c1.start, c1.end, c2.start, c2.end))
            => (InOutput(c1) /\ ~InOutput(c2))

\* the earlier rules left the candidate's span free
FreeOfEarlierRules(c) ==
    \A a \in accepted :
        a.rule < c.rule => ~Intersects(a.start, a.end, c.start, c.end)

\* C3 as amended: of two valid candidates of different rules whose spans
\* intersect, the earlier rule's is in the output and the later rule's is
\* not, provided the earlier rule's candidate intersects no range accepted
\* from a rule before its own.
C3_HigherPriorityWinsWhenFree ==
    dpc = "done" =>
        \A c1, c2 \in candidates :
            (/\ c1.rule < c2.rule
             /\ ValidCandidate(c1) /\ ValidCandidate(c2)
             /\ Intersects(c1.start, c1.end, c2.start, c2.end)
             /\ FreeOfEarlierRules(c1))
            => (InOutput(c1) /\ ~InOutput(c2))

\* a shorter candidate of an earlier rule beats a longer one of a later rule
C3_Witness ==
    /\ dpc = "done"
    /\ \E c1, c2 \in candidates :
          /\ c1.rule < c2.rule
          /\ ValidCandidate(c1) /\ ValidCandidate(c2)
          /\ Intersects(c1.start, c1.end, c2.start, c2.end)
          /\ FreeOfEarlierRules(c1)
          /\ c2.end - c2.start > c1.end - c1.start
          /\ InOutput(c1) /\ ~InOutput(c2)

\* a national-dollar prefix stands at s with its $ at p - 1, and is not
\* the tail of a longer prefix
PrefixAt(t, s, p) ==
    /\ \E i \in DOMAIN DollarLits :
          MatchesLit(t, s, DollarLits[i], TRUE) /\ p = s + Len(DollarLits[i])
    /\ ~\E s2 \in 0..(s - 1) : \E i \in DOMAIN DollarLits :
          MatchesLit(t, s2, DollarLits[i], TRUE) /\ p = s2 + Len(DollarLits[i])

\* the code of the prefix that ends at the $ before p
PrefixCode(t, s, p) ==
    LET letters == [k \in 1..(p - 1 - s) |-> ToUpperCase(At(t, s + k - 1))]
    IN CASE letters = <<"U","S">> -> "USD"
         [] letters = <<"H","K">> -> "HKD"
         [] letters \in {<<"A","U">>, <<"A">>} -> "AUD"
         [] letters \in {<<"C","A">>, <<"C">>} -> "CAD"
         [] letters \in {<<"S","G">>, <<"S">>} -> "SGD"
         [] letters = <<"N","T">> -> "TWD"
         [] OTHER -> ""

\* the longest number text ([\d,]{1,15} and an optional fraction) at p
\* ends at e, e = -1 when no number stands at p
LongestNumber(t, p, e) ==
    LET ends == NumEnds(t, p) IN e = (IF ends = <<>> THEN -1 ELSE Head(ends))

\* the records of the returned list that start at s
RecordsAt(s) == {i \in DOMAIN results : results[i].startIndex = s}

\* C14 as worded: when a national-dollar prefix is directly followed by a
\* number whose value is a valid amount, the returned list has exactly one
\* record that starts at the prefix, it ends where the number ends and
\* carries the prefix's code, and no record starts at the prefix's $.
C14_PrefixThenAmount ==
    dpc = "done" =>
    \A s \in 0..Len(text), p \in 0..Len(text), e \in 0..Len(text) :
        ( /\ PrefixAt(text, s, p) /\ LongestNumber(text, p, e)
          /\ ~IsNonPositive(parseAmount(Substring(text, p, e))) )
        => /\ \E i \in DOMAIN results :
                 /\ RecordsAt(s) = {i}
                 /\ results[i].endIndex = e
                 /\ results[i].code = PrefixCode(text, s, p)
           /\ RecordsAt(p - 1) = {}

\* C14: when a national-dollar prefix is directly followed by a number
\* that ends at a word boundary and whose value is a valid amount, the
\* returned list has exactly one record that starts at the prefix, it ends
\* where the number ends and carries the prefix's code and the number's
\* value; and no record ever starts at the $ of a prefix.
C14_PrefixThenBoundedAmount ==
    dpc = "done" =>
    \A s \in 0..Len(text), p \in 0..Len(text) :
        PrefixAt(text, s, p)
        => LET e == FirstBoundary(text, NumEnds(text, p))
           IN /\ (e >= 0 /\ ~IsNonPositive(parseAmount(Substring(text, p, e))))
                 => \E i \in DOMAIN results :
                       /\ RecordsAt(s) = {i}
                       /\ results[i].endIndex = e
                       /\ results[i].code = PrefixCode(text, s, p)
                       /\ results[i].amount = parseAmount(Substring(text, p, e))
              /\ RecordsAt(p - 1) = {}

\* "US$100 and HK$100": two records, USD then HKD, and none for "$100"
C14_Witness ==
    /\ dpc = "done" /\ text = Scenario2
    /\ Len(results) = 2
    /\ results[1].code = "USD" /\ results[1].startIndex = 0 /\ results[1].endIndex = 6
    /\ results[2].code = "HKD" /\ results[2].startIndex = 11 /\ results[2].endIndex = 17
    /\ \E c \in candidates : c.rule = 2 /\ c.start = 2 /\ c.end = 6

Returned(c) == calls[c].pc = "done" /\ calls[c].rates = "returned"

\* getExchangeRates has thrown in handler c
Rejected(c) == calls[c].pc = "done" /\ calls[c].rates = "rejected"

\* no message has been received after c's
NobodyAfter(c) == \A d \in CallIds : d > c => calls[d].pc = "idle"

\* the messages of the errors a failed fetch throws
FetchErrors == {"Failed to fetch", "API error", "invalid JSON"}

\* C4 as worded: of two calls in a row, each made with no other call under
\* way, the second less than CACHE_DURATION after the first and the first
\* one returning, the two issue at most one fetch in total and the second
\* returns the table the first returned.
C4_LessThanAnHourApart ==
    \A c1 \in CallIds, c2 \in CallIds :
        ( /\ c2 = c1 + 1
          /\ Returned(c1) /\ calls[c1].alone
          /\ Returned(c2) /\ calls[c2].alone /\ calls[c2].soonAfter )
        => /\ calls[c1].fetches + calls[c2].fetches <= 1
           /\ calls[c2].table = calls[c1].table

\* C4: when a call has returned a table, no other call being under way
\* since it was made, the next call, if it is made while that table is
\* less than CACHE_DURATION old, returns that same table at once, and the
\* two calls have issued at most one fetch in total.
C4_WithinTheTableWindow ==
    [][\A c1 \in CallIds, c2 \in CallIds :
          ( /\ c2 = c1 + 1
            /\ Returned(c1) /\ calls[c1].alone
            /\ calls[c2].pc = "idle" /\ calls'[c2].pc # "idle"
            /\ now - calls[c1].table.fetchedAt < CACHE_DURATION )
          => /\ calls'[c2].pc = "done"
             /\ calls'[c2].rates = "returned"
             /\ calls'[c2].table = calls[c1].table
             /\ calls'[c2].response = Success(calls[c1].table)
             /\ calls[c1].fetches + calls'[c2].fetches <= 1]_vars

\* the first call fetched, and the second came later and got the same table
C4_Witness ==
    \E c1 \in CallIds, c2 \in CallIds :
        /\ c2 = c1 + 1
        /\ Returned(c1) /\ calls[c1].alone /\ calls[c1].fetches = 1
        /\ Returned(c2) /\ calls[c2].alone /\ calls[c2].fetches = 0
        /\ calls[c2].table = calls[c1].table
        /\ calls[c2].table.fetchedAt < receivedAt

\* C5 as worded: a call made when the slot's table has expired, no other
\* call being under way then or later, that returns has issued exactly one
\* fetch, and the table it returned is stamped no later than now and is the
\* one in the slot and the one in the persisted record.
C5_ReplacedInBothTiers ==
    \A c \in CallIds :
        (Returned(c) /\ calls[c].alone /\ NobodyAfter(c) /\ calls[c].slotWas = "expired")
        => /\ calls[c].fetches = 1
           /\ calls[c].table.fetchedAt <= now
           /\ memoryCache = calls[c].table
           /\ localStore = calls[c].table

\* C5: a call made when the slot's table has expired, once its persisted
\* read has given it no fresh record, has issued exactly one fetch; the
\* table it builds is stamped with the clock of that moment and is put in
\* the slot; it returns that table; and the persisted record becomes that
\* table when the persisted write succeeds.
C5_RefetchedAfterExpiry ==
    [][\A c \in CallIds :
          (calls[c].slotWas = "expired" /\ calls'[c] # calls[c])
          => /\ calls'[c].via # "storage" => calls'[c].fetches = 1
             /\ (calls[c].pc = "json" /\ calls'[c].pc = "set")
                => /\ calls'[c].table.fetchedAt = now
                   /\ calls'[c].table.date = calls'[c].data.date
                   /\ memoryCache' = calls'[c].table
             /\ calls[c].pc = "set"
                => /\ calls'[c].pc = "done" /\ calls'[c].rates = "returned"
                   /\ calls'[c].table = calls[c].table
                   /\ calls'[c].response = Success(calls[c].table)
                   /\ ~calls'[c].writeFailed => localStore' = calls[c].table]_vars

\* an expired table was in both tiers and the call's new table is in both
C5_Witness ==
    \E c \in CallIds :
        /\ Returned(c) /\ calls[c].alone /\ NobodyAfter(c)
        /\ calls[c].slotWas = "expired"
        /\ calls[c].fetches = 1 /\ ~calls[c].writeFailed
        /\ calls[c].table.fetchedAt = now /\ now > 0
        /\ memoryCache = calls[c].table
        /\ localStore = calls[c].table

\* C6: when the slot was empty or expired at the call and the persisted
\* read delivers a record less than CACHE_DURATION old, the call returns
\* that record, has issued no fetch, and the slot then holds that record.
C6_FreshPersistedRecordPromoted ==
    [][\A c \in CallIds :
          ( /\ calls[c].pc = "get" /\ calls'[c].pc # "get"
            /\ ~calls'[c].readFailed
            /\ calls[c].slotWas \in {"empty", "expired"}
            /\ calls[c].stored # Null
            /\ now - calls[c].stored.fetchedAt < CACHE_DURATION )
          => /\ calls'[c].pc = "done" /\ calls'[c].rates = "returned"
             /\ calls'[c].table = calls[c].stored
             /\ calls'[c].response = Success(calls[c].stored)
             /\ calls'[c].fetches = 0
             /\ memoryCache' = calls[c].stored]_vars

\* the slot was empty and the record an earlier run left was still fresh
C6_Witness ==
    \E c \in CallIds :
        /\ Returned(c) /\ calls[c].via = "storage" /\ calls[c].slotWas = "empty"
        /\ calls[c].alone /\ NobodyAfter(c) /\ now > 0
        /\ calls[c].fetches = 0
        /\ memoryCache = calls[c].table /\ localStore = calls[c].table

\* C7: a call whose fetch fails answers with the error, has issued one
\* fetch and built no table, and no step of a call up to and including its
\* rejection (awaiting the persisted read, the fetch or the body) changes
\* the slot or the persisted record.
C7_FailedFetchChangesNothing ==
    [][\A c \in CallIds :
          ( /\ calls'[c] # calls[c]
            /\ calls'[c].pc \in {"get", "fetch", "json"} \/ calls'[c].rates = "rejected" )
          => /\ memoryCache' = memoryCache
             /\ localStore' = localStore
             /\ calls'[c].fetches <= 1
             /\ calls'[c].rates = "rejected"
                => /\ calls'[c].pc = "done"
                   /\ calls'[c].fetches = 1
                   /\ calls'[c].table = Null
                   /\ calls'[c].response.success = FALSE
                   /\ calls'[c].response.error \in FetchErrors]_vars

\* a non-2xx answer while both tiers held an expired table
C7_Witness ==
    \E c \in CallIds :
        /\ Rejected(c) /\ calls[c].alone /\ NobodyAfter(c)
        /\ calls[c].response.error = "API error"
        /\ calls[c].slotWas = "expired"
        /\ memoryCache # Null /\ localStore = memoryCache

\* C8: a call whose persisted read failed has gone on to the fetch, and
\* rejects only with a fetch error; a call whose persisted write failed has
\* returned the table it built, and that table is in the slot when no other
\* call was under way at its receipt or has been received since.
C8_StorageFailureNotPropagated ==
    \A c \in CallIds :
        /\ calls[c].readFailed
           => /\ calls[c].pc \in {"fetch", "json", "set", "done"}
              /\ calls[c].fetches = 1
              /\ Rejected(c) => calls[c].response.error \in FetchErrors
        /\ calls[c].writeFailed
           => /\ Returned(c)
              /\ calls[c].via = "fetch"
              /\ calls[c].response = Success(calls[c].table)
              /\ (calls[c].alone /\ NobodyAfter(c)) => memoryCache = calls[c].table

\* both the read and the write failed and the new table was returned
C8_Witness ==
    \E c \in CallIds :
        /\ calls[c].readFailed /\ calls[c].writeFailed
        /\ Returned(c) /\ calls[c].alone /\ NobodyAfter(c)
        /\ memoryCache = calls[c].table
        /\ localStore # calls[c].table

\* getExchangeRates in handler c has gone past its persisted read
PastTheRead(c) == calls[c].pc \in {"fetch", "json", "set", "done"}

\* this step is handler c being called while the slot holds no fresh table
CalledOnStaleSlot(c) ==
    /\ calls[c].pc = "idle" /\ calls'[c].pc # "idle"
    /\ calls'[c].msg.type \in RateTypes
    /\ TierState(memoryCache, now) # "fresh"

\* this step is the persisted read of handler c coming back with no fresh
\* record: failed, empty or expired
StaleReadBack(c) ==
    /\ calls[c].pc = "get" /\ calls'[c].pc # "get"
    /\ calls'[c].readFailed \/ TierState(calls[c].stored, now) # "fresh"

\* C11: a call made while the slot holds no fresh table reads the
\* persisted record as it is then, and when that read brings no fresh
\* record the call issues a fetch of its own, whatever fetches other calls
\* have in flight; no call issues a fetch at any other step, so two
\* overlapping calls made on empty or expired tiers issue two fetches.
C11_EachCallFetches ==
    [][\A c \in CallIds :
          /\ CalledOnStaleSlot(c) =>
                 /\ calls'[c].pc = "get" /\ calls'[c].stored = localStore
                 /\ calls'[c].fetches = 0
          /\ StaleReadBack(c) => calls'[c].pc = "fetch" /\ calls'[c].fetches = 1
          /\ calls'[c].fetches # calls[c].fetches => StaleReadBack(c)]_vars

\* two calls, the second made while the first was under way, each awaiting
\* the fetch it has issued, with no failed persisted read to force it
C11_Witness ==
    \E c1 \in CallIds, c2 \in CallIds :
        /\ c1 < c2
        /\ ~calls[c2].alone
        /\ calls[c1].pc = "fetch" /\ calls[c2].pc = "fetch"
        /\ calls[c1].fetches = 1 /\ calls[c2].fetches = 1
        /\ ~calls[c1].readFailed /\ ~calls[c2].readFailed

\* the tables getExchangeRates has returned, and the one in the slot
TablesSeen ==
    {calls[c].table : c \in {d \in CallIds : Returned(d)}}
    \cup (IF memoryCache = Null THEN {} ELSE {memoryCache})

\* C12 as worded: every table returned or in the slot has an entry for
\* each of the 16 supported codes and for no other code, and maps JPY to 1.
C12_OneEntryPerSupportedCode ==
    \A tbl \in TablesSeen :
        DOMAIN tbl.rates = SupportedCodes /\ tbl.rates["JPY"] = One

\* C12: every table returned or in the slot maps JPY to 1; a table that
\* came from a fetch has one entry for each code of the fetched body, the
\* inverse of the body's rate, and beside these only JPY; a table that came
\* from the persisted record is that record as it was stored.
C12_EntriesFollowTheSource ==
    /\ \A tbl \in TablesSeen : "JPY" \in DOMAIN tbl.rates /\ tbl.rates["JPY"] = One
    /\ \A c \in CallIds :
          Returned(c)
          => LET tbl == calls[c].table
             IN /\ calls[c].via = "fetch"
                   => /\ DOMAIN tbl.rates = DOMAIN calls[c].data.rates \cup {"JPY"}
                      /\ \A k \in DOMAIN calls[c].data.rates :
                            RatEq(Times(tbl.rates[k], calls[c].data.rates[k]), One)
                /\ calls[c].via = "storage" => tbl = calls[c].stored
    /\ memoryCache # Null
       => \/ \E c \in CallIds : calls[c].via = "storage" /\ memoryCache = calls[c].table
          \/ \E c \in CallIds :
                /\ calls[c].pc \in {"set", "done"} /\ calls[c].data # Null
                /\ memoryCache = calls[c].table
                /\ DOMAIN memoryCache.rates = DOMAIN calls[c].data.rates \cup {"JPY"}

\* a fetched table in the slot and returned, with a code that is not
\* supported and without most of the supported ones
C12_Witness ==
    \E c \in CallIds :
        /\ Returned(c) /\ calls[c].via = "fetch" /\ memoryCache = calls[c].table
        /\ "BRL" \in DOMAIN calls[c].table.rates
        /\ "EUR" \notin DOMAIN calls[c].table.rates
        /\ calls[c].table.rates["JPY"] = One

(***************************************************************************)
(* Properties of convertToYen and of the message listener                  *)
(***************************************************************************)
\* handler c was given a CONVERT_TO_YEN message and getExchangeRates has
\* returned to it
Converted(c) == Returned(c) /\ calls[c].msg.type = "CONVERT_TO_YEN"

\* an envelope { success: true, data }
IsSuccess(r) == r # Null /\ r.success = TRUE /\ r.data # Null /\ r.error = ""

\* an envelope { success: false, error }
IsFailure(r) == r # Null /\ r.success = FALSE /\ r.data = Null /\ r.error # ""

\* some promise handler c awaits settles
HandlerStep(c) ==
    \/ StorageGetResolved(c) \/ StorageGetRejected(c)
    \/ FetchRejected(c) \/ FetchNotOk(c) \/ FetchOk(c)
    \/ JsonRejected(c) \/ \E data \in Payloads : JsonResolved(c, data)
    \/ StorageSetResolved(c) \/ StorageSetRejected(c)
    \/ SyncGetResolved(c) \/ SyncGetRejected(c)
    \/ SyncSetResolved(c) \/ SyncSetRejected(c)

\* C9: a conversion answers with the unsupported-currency error exactly
\* when the currency has no entry in the rates of the table that
\* getExchangeRates returned to it; otherwise it answers with
\* yen = amount * rates[currency] (not rounded), rate = rates[currency] and
\* the table's date.
C9_ConvertedExactly ==
    \A c \in CallIds :
        Converted(c)
        => LET tbl == calls[c].table
               code == calls[c].msg.currency
               answer == calls[c].response
           IN IF code \in DOMAIN tbl.rates
              THEN /\ IsSuccess(answer)
                   /\ RatEq(answer.data.yen, Times(calls[c].msg.amount, tbl.rates[code]))
                   /\ answer.data.rate = tbl.rates[code]
                   /\ answer.data.date = tbl.date
              ELSE answer = Failure("unsupported currency")

\* one conversion whose product is not a whole number of yen, and one of a
\* currency the table does not list
C9_Witness ==
    /\ \E c \in CallIds :
          /\ Converted(c) /\ IsSuccess(calls[c].response)
          /\ calls[c].response.data.yen.n % calls[c].response.data.yen.d # 0
    /\ \E c \in CallIds :
          /\ Converted(c) /\ calls[c].response = Failure("unsupported currency")
          /\ calls[c].msg.currency \notin DOMAIN calls[c].table.rates

\* C10: sendResponse is called at most once per message; a handler that
\* still awaits a promise has sent nothing and goes on as soon as the
\* promise settles; a handler that is done has sent exactly one envelope,
\* which is either success with data or failure with an error string, and
\* it is the failure when getExchangeRates rejected, when the currency has
\* no rate, and when the message type is unknown.
C10_ExactlyOneEnvelope ==
    \A c \in CallIds :
        LET call == calls[c]
        IN /\ call.sent <= 1
           /\ call.pc = "idle" => call.sent = 0
           /\ call.pc \notin {"idle", "done"} => call.sent = 0 /\ ENABLED HandlerStep(c)
           /\ call.pc = "done"
              => /\ call.sent = 1
                 /\ IsSuccess(call.response) \/ IsFailure(call.response)
                 /\ call.rates = "rejected" => IsFailure(call.response)
                 /\ (Converted(c) /\ NoRate(call.table.rates, call.msg.currency))
                    => IsFailure(call.response)
                 /\ call.msg.type \notin RateTypes \cup SettingsTypes
                    => IsFailure(call.response)
                 /\ (call.msg.type = "GET_ALL_RATES" /\ call.rates = "returned")
                    => call.response = Success(call.table)
                 /\ call.msg.type = "GET_SETTINGS" => IsSuccess(call.response)

\* a failed fetch, an unknown type and a completed operation, each answered
C10_Witness ==
    \E c \in CallIds, d \in CallIds :
        /\ calls[c].pc = "done" /\ calls[c].msg.type = "GET_EXCHANGE_RATE"
        /\ IsFailure(calls[c].response)
        /\ Rejected(d) /\ calls[d].msg.type = "CONVERT_TO_YEN"
        /\ IsFailure(calls[d].response) /\ calls[d].sent = 1

(***************************************************************************)
(* Properties of getSettings and setSettings                               *)
(***************************************************************************)
\* the fields of ExtensionSettings
SettingsFields == {"enabled", "showOriginalAmount", "tooltipDelay"}

\* the full settings in which every field of st has its value in st and
\* every other field its default
Resolved(st) ==
    [f \in SettingsFields |-> IF f \in DOMAIN st THEN st[f] ELSE DEFAULT_SETTINGS[f]]

\* the settings cur with only the fields named in partial changed
Changed(cur, partial) ==
    [f \in SettingsFields |-> IF f \in DOMAIN partial THEN partial[f] ELSE cur[f]]

\* handler c leaves the await of chrome.storage.sync.get
SettingsGot(c) == calls[c].pc = "sget" /\ calls'[c].pc # "sget"

\* handler c leaves the await of chrome.storage.sync.set
SettingsPut(c) == calls[c].pc = "sset" /\ calls'[c].pc # "sset"

\* C15 as worded: getSettings always returns the persisted settings with
\* the defaults for the fields that are not stored; setSettings persists
\* and returns the persisted settings with only the fields of partial
\* changed.
C15_StoredFieldsAlwaysKept ==
    [][\A c \in CallIds :
          /\ SettingsGot(c)
             => IF calls[c].msg.type = "GET_SETTINGS"
                THEN calls'[c].response = Success(Resolved(syncStore))
                ELSE calls'[c].settings = Changed(Resolved(syncStore), calls[c].msg.settings)
          /\ SettingsPut(c)
             => /\ syncStore' = Changed(Resolved(syncStore), calls[c].msg.settings)
                /\ calls'[c].response = Success(syncStore')]_vars

\* C15: getSettings returns the persisted settings with the defaults for
\* the fields that are not stored, and the defaults alone when the read of
\* the settings fails; setSettings takes what its getSettings returned,
\* changes only the fields of partial, and, when the write succeeds,
\* persists and returns exactly that; when the write fails it persists
\* nothing and the handler answers with the failure.
C15_SettingsResolved ==
    [][\A c \in CallIds :
          /\ SettingsGot(c)
             => LET current == IF calls'[c].readFailed THEN DEFAULT_SETTINGS
                               ELSE Resolved(syncStore)
                IN /\ syncStore' = syncStore
                   /\ IF calls[c].msg.type = "GET_SETTINGS"
                      THEN /\ calls'[c].pc = "done"
                           /\ calls'[c].response = Success(current)
                      ELSE /\ calls'[c].pc = "sset"
                           /\ calls'[c].settings = Changed(current, calls[c].msg.settings)
          /\ SettingsPut(c)
             => /\ calls'[c].pc = "done"
                /\ IF calls'[c].writeFailed
                   THEN syncStore' = syncStore /\ IsFailure(calls'[c].response)
                   ELSE /\ syncStore' = calls[c].settings
                        /\ calls'[c].response = Success(calls[c].settings)]_vars

\* enabled switched off over a stored tooltipDelay: the stored field kept,
\* the unset field at its default, and a later GET_SETTINGS returning it
C15_Witness ==
    \E c \in CallIds, d \in CallIds :
        /\ c < d
        /\ calls[c].pc = "done" /\ calls[c].msg.type = "SET_SETTINGS"
        /\ calls[c].msg.settings = [enabled |-> FALSE]
        /\ calls[c].response =
              Success([enabled |-> FALSE, showOriginalAmount |-> TRUE, tooltipDelay |-> 500])
        /\ syncStore = calls[c].response.data
        /\ calls[d].pc = "done" /\ calls[d].msg.type = "GET_SETTINGS"
        /\ calls[d].response = calls[c].response
        /\ ~calls[c].readFailed /\ ~calls[d].readFailed

(***************************************************************************)
(* Properties of the content script                                        *)
(***************************************************************************)
\* C16: while the latest settings change applied is one with
\* enabled = false, no step makes a hidden tooltip visible.
C16_NoTooltipWhileSwitchedOff ==
    [][(switchedOff /\ switchedOff')
       => ~(tooltip.display = "none" /\ tooltip'.display = "block")]_vars

(***************************************************************************)
(* Properties of the overlap test                                          *)
(***************************************************************************)
\* the span [s, e) intersects one of the ranges of the list
IntersectsAny(s, e, ranges) ==
    \E i \in DOMAIN ranges : Intersects(s, e, ranges[i].start, ranges[i].end)

\* the candidate's span contains the range and is longer at both ends
StrictlyContains(s, e, range) == s < range.start /\ range.end < e

\* C17: the three-clause test is true exactly when the candidate's
\* half-open span intersects one of the ranges found so far, and a candidate
\* with a code and a positive amount is pushed exactly when its span
\* intersects none of the ranges pushed before it.
C17_OverlapIsIntersection ==
    /\ overlap.tested =>
          (overlap.isOverlapping
              <=> IntersectsAny(overlap.startIndex, overlap.endIndex, overlap.foundRanges))
    /\ dpc = "done" =>
          \A c \in candidates :
              (ValidCandidate(c) /\ c.code # "JPY") =>
                  ([rule |-> c.rule, start |-> c.start, end |-> c.end] \in accepted
                      <=> ~IntersectsAny(c.start, c.end, c.found))

\* a candidate that strictly contains a range has been tested, beside a
\* call in which one valid candidate was pushed and another, lying inside
\* a range pushed before it, was not
C17_Witness ==
    /\ overlap.tested /\ overlap.isOverlapping
    /\ \E i \in DOMAIN overlap.foundRanges :
          StrictlyContains(overlap.startIndex, overlap.endIndex, overlap.foundRanges[i])
    /\ dpc = "done"
    /\ \E c1, c2 \in candidates :
          /\ ValidCandidate(c1) /\ ValidCandidate(c2)
          /\ [rule |-> c1.rule, start |-> c1.start, end |-> c1.end] \in accepted
          /\ c1.found # <<>>
          /\ [rule |-> c2.rule, start |-> c2.start, end |-> c2.end] \notin accepted
          /\ \E i \in DOMAIN c2.found :
                c2.found[i].start <= c2.start /\ c2.end <= c2.found[i].end

(***************************************************************************)
(* Properties of the slot under interleaved calls                          *)
(***************************************************************************)
\* tbl is the table built from the one parsed body data at time t
BuiltFrom(tbl, data, t) ==
    /\ tbl.fetchedAt = t
    /\ tbl.date = data.date
    /\ DOMAIN tbl = {"rates", "date", "fetchedAt"}
    /\ DOMAIN tbl.rates = DOMAIN data.rates \cup {"JPY"}
    /\ \A code \in DOMAIN data.rates \ {"JPY"} :
          tbl.rates[code] = Inverse(data.rates[code])
    /\ tbl.rates["JPY"] = One

\* tbl is the record the worker found persisted when it started, or the
\* table one handler built from the body of its own fetch
Whole(tbl) ==
    \/ tbl = OldTable
    \/ \E c \in CallIds :
          calls[c].data # Null /\ BuiltFrom(tbl, calls[c].data, calls[c].builtAt)

\* C18: the slot is empty or holds a whole table, all of it from one fetch
\* or from one persisted record, and so is every table getExchangeRates
\* has returned to a caller.
C18_SlotHoldsOneWholeTable ==
    /\ memoryCache = Null \/ Whole(memoryCache)
    /\ \A c \in CallIds : calls[c].rates = "returned" => Whole(calls[c].table)

\* two overlapping handlers have each built a table from a different body,
\* at different times; the second has returned its table and the first has
\* since put its own in the slot
C18_Witness ==
    /\ calls[1].data # Null /\ calls[2].data # Null
    /\ calls[1].data # calls[2].data
    /\ calls[1].builtAt > calls[2].builtAt
    /\ ~calls[2].alone
    /\ memoryCache = calls[1].table
    /\ calls[2].pc = "done" /\ calls[2].rates = "returned"
    /\ calls[1].pc = "set"

(***************************************************************************)
(* Properties of a call that finds the slot fresh                          *)
(***************************************************************************)
\* this step is handler c receiving a rates message while the slot holds a
\* table less than CACHE_DURATION old
ReceivedOnFreshSlot(c) ==
    /\ calls[c].pc = "idle" /\ calls'[c].pc # "idle"
    /\ calls'[c].msg.type \in RateTypes
    /\ memoryCache # Null
    /\ now - memoryCache.fetchedAt < CACHE_DURATION

\* the handler has issued no storage read, no fetch and no storage write
NoInputOutput(call) ==
    /\ call.pc = "done"
    /\ call.fetches = 0
    /\ call.stored = Null /\ ~call.readFailed /\ ~call.writeFailed
    /\ call.data = Null

\* C19: a call made while the slot holds a table less than CACHE_DURATION
\* old returns that table within the step, with no storage read, no fetch
\* and no storage write, and the slot and the persisted record stay as
\* they are.
C19_FreshSlotReturnedAtOnce ==
    [][\A c \in CallIds :
          ReceivedOnFreshSlot(c) =>
              /\ calls'[c].rates = "returned"
              /\ calls'[c].table = memoryCache
              /\ calls'[c].response = Success(memoryCache)
              /\ NoInputOutput(calls'[c])
              /\ memoryCache' = memoryCache
              /\ localStore' = localStore]_vars

\* the second call was answered from the slot, whose table was fetched at
\* an earlier time and differs from the persisted record
C19_Witness ==
    /\ calls[2].via = "memory" /\ calls[2].pc = "done"
    /\ calls[2].table = memoryCache
    /\ now > memoryCache.fetchedAt
    /\ localStore # memoryCache

(***************************************************************************)
(* Properties of detectCurrencyAtPoint                                     *)
(***************************************************************************)
\* the strategies in the order of the source
StrategyOrder == <<"caret", "element", "parents">>

\* what strategy number k finds at the point
OutcomeOf(k) ==
    CASE k = 1 -> point.rangeResult
      [] k = 2 -> point.elementResult
      [] k = 3 -> point.parentResult

\* C20: the strategies are called in the order caret range, hovered
\* element, ancestors, up to the first that finds a currency; that one's
\* result is returned, and none is returned only when all three find
\* nothing.
C20_FirstSuccessInFixedOrder ==
    point.called =>
        LET n == Len(point.tried)
        IN /\ n \in 1..3
           /\ point.tried = SubSeq(StrategyOrder, 1, n)
           /\ \A k \in 1..(n - 1) : OutcomeOf(k) = Null
           /\ point.result = OutcomeOf(n)
           /\ point.result = Null => n = 3
           /\ point.result = Null <=> \A k \in 1..3 : OutcomeOf(k) = Null

\* the caret range found nothing, the hovered element and the ancestors
\* each found a different currency, and the element's was returned
C20_Witness ==
    /\ point.called
    /\ point.rangeResult = Null
    /\ point.elementResult # Null /\ point.parentResult # Null
    /\ point.elementResult # point.parentResult
    /\ point.result = point.elementResult
    /\ point.tried = <<"caret", "element">>

(***************************************************************************)
(* Properties of the slot's time stamp                                     *)
(***************************************************************************)
\* C28: no step replaces the table in the slot by a table with a smaller
\* fetchedAt.
C28_FetchedAtNeverDecreases ==
    [][(memoryCache # Null /\ memoryCache' # Null)
       => memoryCache'.fetchedAt >= memoryCache.fetchedAt]_vars

(***************************************************************************)
(* Properties of the content script's timers                               *)
(***************************************************************************)
\* C24: mouse-move handling is debounced: processMousePosition runs only for a
\* mousemove that no other mousemove followed while its timer was pending,
\* that is within DEBOUNCE_DELAY ms.
C24_DetectionForLastMouseMoveOnly ==
    [][(mouseMoveTimer # Null /\ mouseMoveTimer' = Null)
       => ~mouseMoveTimer.followed]_vars

\* C25: when hideTooltip() has been called and no showTooltip() call follows
\* it (nor a cancelHideTooltip() call that takes the hide back), the tooltip
\* eventually is hidden and stays hidden.
C25_HiddenForGoodAfterHide ==
    <>[](called.last = "hideTooltip" /\ ~called.cancelled)
        => <>[](tooltip.display = "none")

\* C26: once cancelHideTooltip() has returned, no step hides the tooltip
\* until hideTooltip() is called again.
C26_NoHideAfterCancel ==
    [][(called.cancelled /\ tooltip.display = "block")
       => tooltip'.display = "block"]_vars

\* C27: a visible tooltip shows the price of the most recent showTooltip call.
C27_VisibleContentIsLatest ==
    tooltip.display = "block" => tooltip.original = called.shown

(***************************************************************************)
(* Properties of the detection strategies                                  *)
(***************************************************************************)
\* the first amount detected in the element's text, or null
FirstAmount(element) ==
    LET currencies == detectCurrencies(ElementText(element)).results
    IN IF currencies = <<>> THEN Null ELSE currencies[1]

\* the box grown by 5px contains the point, the box is at most 150 wide and
\* 60 high (200 wide and customHeight high for a custom element) and the text
\* is at most 50 characters long (100 for a custom element)
WithinThresholds(element, x, y, customHeight) ==
    LET custom == Includes(element.tagName, "-")
        rect == element.rect
    IN /\ rect.left - 5 <= x /\ x <= rect.right + 5
       /\ rect.top - 5 <= y /\ y <= rect.bottom + 5
       /\ rect.right - rect.left <= (IF custom THEN 200 ELSE 150)
       /\ rect.bottom - rect.top <= (IF custom THEN customHeight ELSE 60)
       /\ Len(ElementText(element)) <= (IF custom THEN 100 ELSE 50)

IsExcluded(element) == LowerCased(element.tagName) \in ExcludedTags

\* C22, as stated: the element strategy accepts an element exactly when the
\* box grown by 5px contains the point, the box is within 150 x 60 (200 x 100
\* for a custom element) and the text is within 50 characters (100 for a
\* custom element); it then returns the first detected amount of the text.
C22_AcceptsWithinStatedThresholds ==
    (strategy.kind = "element" /\ strategy.done /\ ~IsExcluded(strategy.element))
    => strategy.result =
          IF WithinThresholds(strategy.element, strategy.x, strategy.y, 100)
          THEN FirstAmount(strategy.element) ELSE Null

\* C22, amended: the same with a height limit of 60 for every element, and
\* null for the excluded tags.
C22_AcceptsWithinThresholds ==
    (strategy.kind = "element" /\ strategy.done)
    => strategy.result =
          IF /\ ~IsExcluded(strategy.element)
             /\ WithinThresholds(strategy.element, strategy.x, strategy.y, 60)
          THEN FirstAmount(strategy.element) ELSE Null

\* a custom element at its limits (200 x 60, 100 characters, the point on the
\* edge of the padding) is accepted
C22_Witness ==
    /\ strategy.kind = "element" /\ strategy.done
    /\ Includes(strategy.element.tagName, "-")
    /\ strategy.element.rect.right - strategy.element.rect.left = 200
    /\ strategy.element.rect.bottom - strategy.element.rect.top = 60
    /\ Len(ElementText(strategy.element)) = 100
    /\ strategy.x = strategy.element.rect.left - 5
    /\ strategy.y = strategy.element.rect.bottom + 5
    /\ strategy.result # Null
    /\ strategy.result.originalText = Dollar10

\* the ancestors the walk may examine: the first 15, up to the first body,
\* html or head
InRange(ancestors) ==
    {i \in DOMAIN ancestors :
        /\ i <= 15
        /\ \A j \in 1..i : LowerCased(ancestors[j].tagName) \notin StopTags}

\* the ancestors in range that yield a match at the point
Yielding(ancestors, x, y) ==
    {i \in InRange(ancestors) : DetectFromTargetElement(ancestors[i], x, y) # Null}

IsCustomAncestor(ancestors, i) == Includes(ancestors[i].tagName, "-")

Nearest(is) == CHOOSE i \in is : \A j \in is : i <= j

\* C23: the walk examines at most 15 ancestors and stops at body/html, and
\* when a custom-element ancestor among them yields a match, the (nearest)
\* custom one's match is returned, also when an ordinary ancestor yields one.
C23_CustomAncestorPreferred ==
    (strategy.kind = "parents" /\ strategy.done)
    => LET yielding == Yielding(strategy.ancestors, strategy.x, strategy.y)
           custom == {i \in yielding : IsCustomAncestor(strategy.ancestors, i)}
           chosen == IF custom # {} THEN Nearest(custom) ELSE Nearest(yielding)
       IN strategy.result =
             IF yielding = {} THEN Null
             ELSE DetectFromTargetElement(strategy.ancestors[chosen],
                                          strategy.x, strategy.y)

\* what holds instead: the match of the nearest yielding ancestor is returned
NearestAncestorReturned ==
    (strategy.kind = "parents" /\ strategy.done)
    => LET yielding == Yielding(strategy.ancestors, strategy.x, strategy.y)
       IN strategy.result =
             IF yielding = {} THEN Null
             ELSE DetectFromTargetElement(strategy.ancestors[Nearest(yielding)],
                                          strategy.x, strategy.y)

\* the window of at most 50 characters before and after the caret offset
WindowStart(range) == IF range.offset > 50 THEN range.offset - 50 ELSE 0
WindowEnd(range) ==
    IF range.offset + 50 < Len(range.text) THEN range.offset + 50 ELSE Len(range.text)

\* C21: the caret strategy returns a match only if it was detected in the
\* window of at most 50 characters before and after the caret offset, with
\* the caret on it, and the box of its span grown by 5px contains the point.
C21_CaretMatchUnderPoint ==
    (strategy.kind = "caret" /\ strategy.done /\ strategy.result # Null)
    => LET range == strategy.range
           from == WindowStart(range)
           window == SubSeq(range.text, from + 1, WindowEnd(range))
           detected == detectCurrencies(window).results
           found == strategy.result
           box == RangeRect(found.startIndex, found.endIndex)
       IN /\ range.kind = "text"
          /\ Len(window) <= 100
          /\ \E i \in DOMAIN detected :
                /\ found = [detected[i] EXCEPT !.startIndex = @ + from,
                                               !.endIndex = @ + from]
                /\ detected[i].startIndex <= range.offset - from
                /\ range.offset - from <= detected[i].endIndex
          /\ found.originalText
                = SubSeq(range.text, found.startIndex + 1, found.endIndex)
          /\ box.left - 5 <= strategy.x /\ strategy.x <= box.right + 5
          /\ box.top - 5 <= strategy.y /\ strategy.y <= box.bottom + 5

\* a price more than 50 characters into the text is returned with its
\* offsets in the text node, the point being on the edge of the padding
C21_Witness ==
    /\ strategy.kind = "caret" /\ strategy.done
    /\ strategy.result # Null
    /\ strategy.result.startIndex > 50
    /\ strategy.range.offset = strategy.result.endIndex
    /\ strategy.y = Line.top + Line.height + 5

\* the caret is on a price and the point is not in the price's box: null
C21_WitnessRejected ==
    /\ strategy.kind = "caret" /\ strategy.done
    /\ strategy.result = Null
    /\ strategy.range.text = Dollar10 \o HK5
    /\ strategy.range.offset = 3
    /\ strategy.y = Line.top + Line.height + 6
====
